---- MODULE Spec2Model ----
(***************************************************************************)
(* Model of the outage alert bot (src/bot.py): the subscription store, the *)
(* dedup ledger, the schedule cache, the Jalali calendar conversion and    *)
(* the scheduler jobs alerts_tick / daily_digest_job / cleanup_old_alerts, *)
(* interleaved at their await points with the interactive handlers.        *)
(*                                                                         *)
(* Conventions.  A Python dict read with .get() is a record whose missing  *)
(* or None fields are Nil (the empty tuple, falsy like None and "").  An   *)
(* "HH:MM" text is the tuple of its ":"-separated integer parts, so that   *)
(* "14:00" is <<14, 0>> and a text with a missing part is <<14>>.  A       *)
(* "YYYY/MM/DD" text is <<y, m, d>>; with two-digit months and days its    *)
(* string order is the lexicographic order of the tuple.  Instants are     *)
(* [jdn, min]: the Julian day number of the Tehran date and the minute of  *)
(* the day.                                                                *)
(***************************************************************************)
EXTENDS Integers, Sequences, FiniteSets, TLC

Nil == <<>>

\* Python truthiness of a field value (None, "" and [] are falsy).
Truthy(v) == v # Nil

\* Python "a or b".
Or(a, b) == IF Truthy(a) THEN a ELSE b

-----------------------------------------------------------------------------
(* Config *)

CACHE_TTL_SECONDS == 3600
NOW_CACHE_TTL_SECONDS == 45
DIGEST_MINUTE == 1
CLEANUP_MINUTE == 180
ALERT_WINDOW_MINUTES == 2
SENT_ALERTS_RETENTION_DAYS == 30

-----------------------------------------------------------------------------
(* Jalaali dates *)

Breaks == <<-61, 9, 38, 199, 426, 686, 756, 818, 1111, 1181, 1210, 1635, 2060,
            2097, 2192, 2262, 2324, 2394, 2456, 3178>>

LeapG(gy) == (gy \div 4) - (((gy \div 100 + 1) * 3) \div 4) - 150

\* The loop of _jalCal from index j on, with jp and leapJ as the loop carries them.
RECURSIVE JalCalFrom(_, _, _, _)
JalCalFrom(jy, j, jp, leapJ) ==
    IF j > Len(Breaks)
    THEN LET N  == jy - jp
             lj == leapJ + (N \div 33) * 8 + (((N % 33) + 3) \div 4)
         IN  [leap  |-> (((N + 1) % 33) - 1) % 4,
              march |-> 20 + lj - LeapG(jy + 621)]
    ELSE LET jm   == Breaks[j]
             jump == jm - jp
         IN  IF jy < jm
             THEN LET N   == jy - jp
                      lj0 == leapJ + (N \div 33) * 8 + (((N % 33) + 3) \div 4)
                      lj  == IF (jump % 33) = 4 /\ jump - N = 4 THEN lj0 + 1 ELSE lj0
                      N2  == IF jump - N < 6
                             THEN N - jump + ((jump + 4) \div 33) * 33
                             ELSE N
                  IN  [leap  |-> (((N2 + 1) % 33) - 1) % 4,
                       march |-> 20 + lj - LeapG(jy + 621)]
             ELSE JalCalFrom(jy, j + 1, jm,
                             leapJ + (jump \div 33) * 8 + ((jump % 33) \div 4))

JalCal(jy) == JalCalFrom(jy, 2, Breaks[1], -14)

G2D(gy, gm, gd) ==
    LET a == (14 - gm) \div 12
        y == gy + 4800 - a
        m == gm + 12 * a - 3
    IN  gd + ((153 * m + 2) \div 5) + 365 * y + (y \div 4) - (y \div 100) + (y \div 400) - 32045

GregorianToJalali(gy, gm, gd) ==
    LET jy == gy - 621
        k  == G2D(gy, gm, gd) - G2D(gy, 3, JalCal(jy).march)
    IN  IF k >= 0
        THEN IF k <= 185
             THEN <<jy, 1 + (k \div 31), 1 + (k % 31)>>
             ELSE <<jy, 7 + ((k - 186) \div 30), 1 + ((k - 186) % 30)>>
        ELSE LET k2 == G2D(gy, gm, gd) - G2D(gy - 1, 3, JalCal(jy - 1).march)
             IN  <<jy - 1, 7 + (k2 \div 30), 1 + (k2 % 30)>>

\* datetime.date of a Julian day number (the standard library's calendar).
DateOfJdn(jdn) ==
    LET a == jdn + 32044
        b == (4 * a + 3) \div 146097
        c == a - ((146097 * b) \div 4)
        d == (4 * c + 3) \div 1461
        e == c - ((1461 * d) \div 4)
        m == (5 * e + 2) \div 153
    IN  <<100 * b + d - 4800 + (m \div 10), m + 3 - 12 * (m \div 10),
          e - ((153 * m + 2) \div 5) + 1>>

\* jalali_from_date: the "YYYY/MM/DD" text of a date.
JalaliFromDate(d) == GregorianToJalali(d[1], d[2], d[3])

\* Order of two "YYYY/MM/DD" texts as SQLite compares TEXT values.
JLess(a, b) ==
    \/ a[1] < b[1]
    \/ a[1] = b[1] /\ a[2] < b[2]
    \/ a[1] = b[1] /\ a[2] = b[2] /\ a[3] < b[3]

-----------------------------------------------------------------------------
(* Formatting & helpers *)

\* _hm_to_minutes: <<n>> for the integer n, Nil for None (the text does not
\* split into exactly two integer parts).
HmToMinutes(hm) == IF Len(hm) = 2 THEN <<hm[1] * 60 + hm[2]>> ELSE Nil

\* A variant of in_window whose interval is closed at its end.
InWindowClosed(target, now) == target <= now /\ now <= target + ALERT_WINDOW_MINUTES

\* in_window, the lambda of alerts_tick.
InWindow(target, now) == target <= now /\ now < target + ALERT_WINDOW_MINUTES

\* item_date = it.get("outage_date") or it.get("reg_date") or ""
ItemDate(it) == Or(it.outage_date, it.reg_date)

\* s_hm = it.get("outage_start_time") or it.get("outage_time") or ""
StartHm(it) == Or(it.outage_start_time, it.outage_time)

\* uniq: the native id, else the f-string over date, start, stop and address.
Uniq(it) ==
    IF Truthy(it.outage_number)
    THEN <<"id", it.outage_number>>
    ELSE <<"composite", ItemDate(it), it.outage_start_time, it.outage_stop_time,
           it.outage_address>>

\* The list comprehensions that keep the rows dated jdate.
OnlyDate(raw, jdate) == SelectSeq(raw, LAMBDA it : ItemDate(it) = jdate)

\* A variant of the today pass that takes a row without a start for due.
DueTodayAnyStart(it, lead, now_m, j_today) ==
    /\ ItemDate(it) = j_today
    /\ \/ HmToMinutes(StartHm(it)) = Nil
       \/ LET s == HmToMinutes(StartHm(it))[1]
          IN  s - lead >= 0 /\ InWindow(s - lead, now_m)

\* Today pass: the guard in front of mark_sent for a row of items_today.
DueToday(it, lead, now_m, j_today) ==
    /\ ItemDate(it) = j_today
    /\ HmToMinutes(StartHm(it)) # Nil
    /\ LET s == HmToMinutes(StartHm(it))[1]
       IN  s - lead >= 0 /\ InWindow(s - lead, now_m)

\* A variant of the tomorrow pass that measures the lead from 23:59.
DueTomorrowShort(it, lead, now_m, j_tomorrow) ==
    /\ ItemDate(it) = j_tomorrow
    /\ HmToMinutes(StartHm(it)) # Nil
    /\ LET s == HmToMinutes(StartHm(it))[1]
       IN  s < lead /\ InWindow(24 * 60 - 1 - (lead - s), now_m)

\* Tomorrow pass: the guard in front of mark_sent for a row of items_tom.
DueTomorrow(it, lead, now_m, j_tomorrow) ==
    /\ ItemDate(it) = j_tomorrow
    /\ HmToMinutes(StartHm(it)) # Nil
    /\ LET s == HmToMinutes(StartHm(it))[1]
       IN  s < lead /\ InWindow(24 * 60 - (lead - s), now_m)

\* The lead offset of an alert kind: the literals 60 and 10 of alerts_tick.
Lead(kind) == IF kind = "1h" THEN 60 ELSE 10

\* e_hm = it.get("outage_stop_time") or ""
StopHm(it) == it.outage_stop_time

\* A variant of the test below that takes an interval to last through its
\* stop minute.
IsCurrentClosed(it, now_m, j_today, j_yesterday) ==
    LET d == ItemDate(it)
        s == HmToMinutes(StartHm(it))
        e == HmToMinutes(StopHm(it))
    IN  /\ d \in {j_today, j_yesterday}
        /\ s # Nil /\ e # Nil
        /\ IF d = j_today
           THEN IF e[1] >= s[1] THEN s[1] <= now_m /\ now_m <= e[1] ELSE now_m >= s[1]
           ELSE e[1] < s[1] /\ now_m <= e[1]

\* The test of filter_current_outages_cross_day on one row.
IsCurrent(it, now_m, j_today, j_yesterday) ==
    LET d == ItemDate(it)
        s == HmToMinutes(StartHm(it))
        e == HmToMinutes(StopHm(it))
    IN  /\ d \in {j_today, j_yesterday}
        /\ s # Nil /\ e # Nil
        /\ IF d = j_today
           THEN IF e[1] >= s[1] THEN s[1] <= now_m /\ now_m < e[1] ELSE now_m >= s[1]
           ELSE e[1] < s[1] /\ now_m < e[1]

\* filter_current_outages_cross_day: nothing when now_hm is no "HH:MM".
FilterCurrent(items, now_hm, j_today, j_yesterday) ==
    IF HmToMinutes(now_hm) = Nil THEN <<>>
    ELSE SelectSeq(items, LAMBDA it :
                      IsCurrent(it, HmToMinutes(now_hm)[1], j_today, j_yesterday))

-----------------------------------------------------------------------------
(* The clock: datetime.now in Asia/Tehran and as a UTC timestamp *)

\* datetime.now(timezone.utc).timestamp(): seconds since 1970-01-01, whose
\* Julian day number is 2440588 (the fixed offset of Tehran time cancels in
\* the differences that are all the caches use).  An instant is at the start
\* of its minute unless it carries the seconds into it.
Timestamp(t) ==
    ((t.jdn - 2440588) * 1440 + t.min) * 60 + (IF "sec" \in DOMAIN t THEN t.sec ELSE 0)

\* jalali_today, jalali_tomorrow and the cutoff date of cleanup_old_alerts.
JalaliToday(t) == JalaliFromDate(DateOfJdn(t.jdn))
JalaliTomorrow(t) == JalaliFromDate(DateOfJdn(t.jdn + 1))
JalaliYesterday(t) == JalaliFromDate(DateOfJdn(t.jdn - 1))
CutoffJShort(t) == JalaliFromDate(DateOfJdn(t.jdn - SENT_ALERTS_RETENTION_DAYS + 1))
CutoffJ(t) == JalaliFromDate(DateOfJdn(t.jdn - SENT_ALERTS_RETENTION_DAYS))

\* now_m = _hm_to_minutes(now_hm) or 0
NowMinutes(t) == t.min

\* now_hhmm_tehran: the "HH:MM" text of the time of day.
NowHm(t) == <<t.min \div 60, t.min % 60>>

-----------------------------------------------------------------------------
(* Caches *)

\* A variant of cache_get keyed by the subject alone.
CacheGetAnyDate(c, bill_id, jdate, t) ==
    LET keys == {k \in DOMAIN c : k[1] = bill_id}
    IN  IF keys = {} THEN [hit |-> FALSE, items |-> <<>>]
        ELSE LET key == CHOOSE k \in keys : TRUE
             IN  IF Timestamp(t) - c[key].ts <= CACHE_TTL_SECONDS
                 THEN [hit |-> TRUE, items |-> c[key].items]
                 ELSE [hit |-> FALSE, items |-> <<>>]

\* cache_get: the items of an entry no older than the TTL, else None.
\* None is [hit |-> FALSE]; an empty list of items is a hit.
CacheGet(c, bill_id, jdate, t) ==
    LET key == <<bill_id, jdate>>
    IN  IF key \notin DOMAIN c THEN [hit |-> FALSE, items |-> <<>>]
        ELSE IF Timestamp(t) - c[key].ts <= CACHE_TTL_SECONDS
             THEN [hit |-> TRUE, items |-> c[key].items]
             ELSE [hit |-> FALSE, items |-> <<>>]

CacheSet(c, bill_id, jdate, items, t) ==
    [k \in DOMAIN c \cup {<<bill_id, jdate>>} |->
        IF k = <<bill_id, jdate>> THEN [ts |-> Timestamp(t), items |-> items] ELSE c[k]]

CacheDeleteBill(c, bill_id) ==
    [k \in {x \in DOMAIN c : x[1] # bill_id} |-> c[k]]

CacheSweep(c, t) ==
    [k \in {x \in DOMAIN c : ~(Timestamp(t) - c[x].ts > CACHE_TTL_SECONDS * 2)} |-> c[k]]

\* The values live_items takes: None, a list of rows, or what else a JSON
\* body may hold under "data".
PyNone == <<"none">>
PyOther == <<"other">>
PyList(rows) == <<"list", rows>>

\* A variant of now_cache_delete_bill that pops nothing.
NowCacheDeleteNone(c, bill_id) == c

\* A variant of now_cache_get that expires an entry at its TTL, not after.
NowCacheGetStrict(c, bill_id, t) ==
    IF bill_id \notin DOMAIN c THEN PyNone
    ELSE IF Timestamp(t) - c[bill_id].ts < NOW_CACHE_TTL_SECONDS THEN c[bill_id].items
         ELSE PyNone

\* now_cache_get: the value of an entry no older than the TTL, else None.
NowCacheGet(c, bill_id, t) ==
    IF bill_id \notin DOMAIN c THEN PyNone
    ELSE IF Timestamp(t) - c[bill_id].ts <= NOW_CACHE_TTL_SECONDS THEN c[bill_id].items
         ELSE PyNone

NowCacheSet(c, bill_id, items, t) ==
    [k \in DOMAIN c \cup {bill_id} |->
        IF k = bill_id THEN [ts |-> Timestamp(t), items |-> items] ELSE c[k]]

NowCacheDeleteBill(c, bill_id) == [k \in DOMAIN c \ {bill_id} |-> c[k]]

-----------------------------------------------------------------------------
(* DB: the tables bills, bill_alerts and sent_alerts *)

\* bills is the sequence of its rows [chat_id, name, bill_id] in rowid order,
\* bill_alerts a function from its primary key <<chat_id, bill_id>> to the
\* three flags, sent_alerts the set of its rows, each its own primary key.

NoAlerts == [a1h |-> 0, a10m |-> 0, a1201 |-> 0]

\* INSERT OR IGNORE INTO bill_alerts(chat_id, bill_id): the flags default to 0.
InsertAlertsOrIgnore(alerts, chat_id, bill_id) ==
    IF <<chat_id, bill_id>> \in DOMAIN alerts THEN alerts
    ELSE [k \in DOMAIN alerts \cup {<<chat_id, bill_id>>} |->
             IF k = <<chat_id, bill_id>> THEN NoAlerts ELSE alerts[k]]

\* add_or_update_bill: upsert on UNIQUE(chat_id, name), then the alerts row.
AddOrUpdateBill(bs, alerts, chat_id, name, bill_id) ==
    LET hit == {n \in 1..Len(bs) : bs[n].chat_id = chat_id /\ bs[n].name = name}
    IN  [bills  |-> IF hit = {}
                    THEN Append(bs, [chat_id |-> chat_id, name |-> name, bill_id |-> bill_id])
                    ELSE [n \in 1..Len(bs) |->
                             IF n \in hit THEN [bs[n] EXCEPT !.bill_id = bill_id] ELSE bs[n]],
         alerts |-> InsertAlertsOrIgnore(alerts, chat_id, bill_id)]

GetAlerts(alerts, chat_id, bill_id) ==
    IF <<chat_id, bill_id>> \in DOMAIN alerts THEN alerts[<<chat_id, bill_id>>] ELSE NoAlerts

\* A variant that writes the row anew (INSERT OR REPLACE) before the update.
SetAlertReplace(alerts, chat_id, bill_id, key, value) ==
    [k \in DOMAIN alerts \cup {<<chat_id, bill_id>>} |->
        IF k = <<chat_id, bill_id>> THEN [NoAlerts EXCEPT ![key] = value] ELSE alerts[k]]

SetAlert(alerts, chat_id, bill_id, key, value) ==
    [InsertAlertsOrIgnore(alerts, chat_id, bill_id)
        EXCEPT ![<<chat_id, bill_id>>][key] = value]

\* Variants of mark_sent the properties below must tell from the real one: a
\* table without the primary key (every INSERT succeeds), and an INSERT that
\* is never committed.
MarkSentNoKey(rows, row) == [first |-> TRUE, rows |-> rows \cup {row}]
MarkSentNoCommit(rows, row) == [first |-> row \notin rows, rows |-> rows]

\* mark_sent: the INSERT fails on the primary key iff the row exists.
\* mark_sent when the INSERT raises something else than the uniqueness
\* violation (the database locked, the disk full): 'except Exception' returns
\* False all the same, and no row is written.
MarkSentRaised(rows) == [first |-> FALSE, rows |-> rows]

\* The store fails during the step of the job with the locals c.
StoreDown(c) == "store_down" \in DOMAIN c

MarkSent(rows, row) ==
    IF row \in rows THEN [first |-> FALSE, rows |-> rows]
    ELSE [first |-> TRUE, rows |-> rows \cup {row}]

\* The row of sent_alerts for an alert.
SentRow(chat_id, bill_id, kind, jdate, uniq) == <<chat_id, bill_id, kind, jdate, uniq>>

Owned(bs, chat_id, bill_id) ==
    \E n \in 1..Len(bs) : bs[n].chat_id = chat_id /\ bs[n].bill_id = bill_id

\* list_active_bills_with_alerts: bills JOIN bill_alerts with a flag set.
ListActive(bs, alerts) ==
    LET on(r) == /\ <<r.chat_id, r.bill_id>> \in DOMAIN alerts
                 /\ LET a == alerts[<<r.chat_id, r.bill_id>>]
                    IN  a.a1h = 1 \/ a.a10m = 1 \/ a.a1201 = 1
        kept  == SelectSeq(bs, on)
    IN  [n \in 1..Len(kept) |->
            [chat_id |-> kept[n].chat_id, name |-> kept[n].name, bill_id |-> kept[n].bill_id,
             a1h   |-> alerts[<<kept[n].chat_id, kept[n].bill_id>>].a1h,
             a10m  |-> alerts[<<kept[n].chat_id, kept[n].bill_id>>].a10m,
             a1201 |-> alerts[<<kept[n].chat_id, kept[n].bill_id>>].a1201]]

-----------------------------------------------------------------------------
(* The outage source and the responses of fetch_blackouts *)

Rec(date, start, stop, number, address) ==
    [outage_date |-> date, reg_date |-> Nil, outage_start_time |-> start,
     outage_time |-> Nil, outage_stop_time |-> stop, outage_number |-> number,
     outage_address |-> address, address |-> Nil]

\* The days of the model: 2025-09-22 is 1404/06/31, the next day 1404/07/01.
Day0 == G2D(2025, 9, 22)
Date0 == <<1404, 6, 31>>
Date1 == <<1404, 7, 1>>

\* An upstream schedule: per subject the rows of all dates.
Schedule0 ==
    [b \in {"A", "B"} |->
        IF b = "A"
        THEN << Rec(Date0, <<14, 0>>, <<16, 0>>, <<7>>, <<"north">>),
                Rec(Date1, <<0, 5>>, <<2, 0>>, Nil, <<"north">>) >>
        ELSE << Rec(Date0, <<13, 10>>, <<15, 0>>, Nil, <<"south">>),
                Rec(Date1, <<0, 55>>, <<1, 30>>, <<9>>, <<"south">>) >>]

\* What fetch_blackouts_raw can return as (resp, err) for a subject and a
\* date range: one of its three failures, or the parsed JSON body.  A body
\* is described by its kind: "dict" carries a list under "data" (the rows of
\* the range, or also later rows), "nodata" is a truthy dict without "data",
\* "list" a truthy body that is no dict, "empty" a falsy body such as {},
\* "baddata" a dict whose "data" is null.
Responses(src, bill_id, from_date, to_date) ==
    LET inrange(it) == ~JLess(it.outage_date, from_date) /\ ~JLess(to_date, it.outage_date)
        later(it)   == ~JLess(it.outage_date, from_date)
    IN  {[kind |-> "none", data |-> <<>>, err |-> e] :
            e \in {"Network error", "Request failed", "Invalid JSON"}}
        \cup {[kind |-> "dict", data |-> SelectSeq(src[bill_id], inrange), err |-> ""],
              [kind |-> "dict", data |-> SelectSeq(src[bill_id], later), err |-> ""]}
        \cup {[kind |-> k, data |-> <<>>, err |-> ""] : k \in {"nodata", "list", "empty", "baddata"}}

\* "if not resp": None and falsy bodies.
RespFalsy(r) == r.kind \in {"none", "empty"}

\* raw = resp.get("data", []) if isinstance(resp, dict) else []
RawOf(r) == IF r.kind = "dict" THEN r.data ELSE <<>>

\* Iterating raw raises when "data" is not a list.
RawRaises(r) == r.kind = "baddata"

\* What fetch_blackouts_live_raw can return for a subject: as above, the
\* list under "data" being empty or the subject's outage now under way;
\* "odddata" is a dict whose "data" is neither a list nor null.
LiveResponses(src, bill_id) ==
    {[kind |-> "none", data |-> <<>>, err |-> e] :
        e \in {"Network error", "Request failed", "Invalid JSON"}}
    \cup {[kind |-> "dict", data |-> rows, err |-> ""] :
             rows \in {<<>>, SubSeq(src[bill_id], 1, 1)}}
    \cup {[kind |-> k, data |-> <<>>, err |-> ""] :
             k \in {"nodata", "list", "empty", "baddata", "odddata"}}

\* live_items = resp_live.get("data", []) if isinstance(resp_live, dict) else []
LiveItemsOf(r) ==
    IF r.kind = "dict" THEN PyList(r.data)
    ELSE IF r.kind = "baddata" THEN PyNone
    ELSE IF r.kind = "odddata" THEN PyOther
    ELSE PyList(<<>>)

-----------------------------------------------------------------------------
(* State *)

VARIABLES
    now,          \* the clock: [jdn, min]
    source,       \* the upstream schedule: subject -> rows
    bills,        \* table bills
    bill_alerts,  \* table bill_alerts
    sent_alerts,  \* table sent_alerts (the dedup ledger)
    cache,        \* _cache: <<bill_id, jdate>> -> [ts, items]
    now_cache,    \* _now_cache: bill_id -> [ts, items]
    query,        \* the running on_button "q:now": its position and locals
    tick,         \* the running alerts_tick: its position and locals
    digest,       \* the running daily_digest_job: its position and locals
    sched,        \* the job queue: when each job last fired
    h,            \* history: what was sent, reserved and removed, per ledger row
    budget        \* how many faults and user requests the environment has made

vars == <<now, source, bills, bill_alerts, sent_alerts, cache, now_cache, query, tick,
          digest, sched, h, budget>>

\* What the jobs of the scheduler leave alone: the live-outage query.
live == <<now_cache, query>>

\* A bag of ledger rows as a function to positive counts.
EmptyBag == [x \in {} |-> 0]
Count(b, x) == IF x \in DOMAIN b THEN b[x] ELSE 0
BagAdd(b, x) == [y \in DOMAIN b \cup {x} |-> IF y = x THEN Count(b, x) + 1 ELSE b[y]]

NoInstant == [jdn |-> 0, min |-> 0]

\* alerts_tick between two runs.  While it runs: pc is where it is, i the
\* subscription, items the rows it iterates, k the row and stage the alert
\* kind it is at, ret the pass a send returns to, reserved the ledger row it
\* has inserted and not yet sent.
TickIdle ==
    [pc |-> "idle", now_m |-> 0, j_today |-> Nil, j_tomorrow |-> Nil, active |-> <<>>,
     i |-> 0, items |-> <<>>, k |-> 0, stage |-> "1h", ret |-> "idle", reserved |-> Nil]

\* daily_digest_job between two runs.  log and sent describe the last run:
\* per subscription handled whether its rows were obtained and whether the
\* ledger had its digest row, and the digests sent.
DigestIdle ==
    [pc |-> "idle", j_today |-> Nil, active |-> <<>>, i |-> 0, items |-> <<>>,
     reserved |-> Nil, sent |-> EmptyBag, log |-> <<>>]

\* on_button "q:now" between two queries.  While it runs: pc is the await it
\* is at, and j_today, j_yesterday and resp_t are its locals.  The rest
\* describes the query, and stays after it: had is what now_cache_get
\* returned, called whether the live endpoint was asked and resp_live what it
\* answered, fetched the schedule fetches made, raw and now_hm what the
\* filter was given, shown the answer.
QueryIdle ==
    [pc |-> "idle", bill_id |-> "", j_today |-> Nil, j_yesterday |-> Nil, resp_t |-> Nil,
     had |-> PyNone, called |-> FALSE, resp_live |-> Nil, fetched |-> 0, raw |-> <<>>,
     now_hm |-> Nil, shown |-> Nil]

\* The history of a ledger holding the rows led, each inserted by a mark_sent
\* that returned True and was followed by its send.
HistOf(led) ==
    [sent    |-> [r \in led |-> 1],  \* send attempts per ledger row
     removed |-> EmptyBag,           \* times a bill deletion removed the row
     firsts  |-> [r \in led |-> 1],  \* mark_sent calls returning True since the row was last removed
     calls   |-> [r \in led |-> 1],  \* mark_sent calls per row since the row was last removed
     failed  |-> [r \in {} |-> 0],   \* rows whose send raised: the counts of sends and removals then
     fetch_failed |-> {},            \* cache keys not cached whose latest fetch failed
     aborted |-> {},                 \* jobs a run of which ended by an exception
     twin    |-> Nil]                \* the scheduler without the cache, where one is run

-----------------------------------------------------------------------------
(* History bookkeeping *)

\* A send of the row returned (ok) or raised; led is the ledger then.  For a
\* send that raised, the counts are those of the sends so far and of the
\* removals up to the insert the send followed.
HSent(hh, row, ok, led) ==
    [hh EXCEPT !.sent = BagAdd(@, row),
               !.failed = IF ok \/ row \in DOMAIN @ THEN @
                          ELSE [r \in DOMAIN @ \cup {row} |->
                                   IF r = row
                                   THEN [sent |-> Count(hh.sent, row) + 1,
                                         removed |-> Count(hh.removed, row)
                                                     - (IF row \in led THEN 0 ELSE 1)]
                                   ELSE @[r]]]

HMarked(hh, row, first) ==
    [hh EXCEPT !.calls = BagAdd(@, row),
               !.firsts = IF first THEN BagAdd(@, row) ELSE @]

\* The rows gone leave the per-row history; a bill deletion is counted.
HRemoved(hh, gone, by_delete) ==
    [hh EXCEPT !.removed = IF by_delete
                           THEN [r \in DOMAIN @ \cup gone |->
                                    Count(@, r) + (IF r \in gone THEN 1 ELSE 0)]
                           ELSE @,
               !.firsts = [r \in DOMAIN @ \ gone |-> @[r]],
               !.calls = [r \in DOMAIN @ \ gone |-> @[r]]]

\* A fetch for the cache key returned; had: the key was a cache hit then.
HFetched(hh, key, failed, had) ==
    [hh EXCEPT !.fetch_failed = IF failed THEN (IF had THEN @ ELSE @ \cup {key})
                                ELSE @ \ {key}]

-----------------------------------------------------------------------------
(* alerts_tick *)

\* The event loop runs one coroutine at a time: a job holds it from one await
\* to the next.  A job's step is therefore a function on what the job reads
\* and writes, c = [tick or digest, cache, sent_alerts, h], applied until the
\* job awaits a fetch or a send, returns or raises.

\* The subscription the tick is at, and the ledger row of the alert it is at.
TickSub(t) == t.active[t.i]
TickRow(t) == SentRow(TickSub(t).chat_id, TickSub(t).bill_id, t.stage,
                      ItemDate(t.items[t.k]), Uniq(t.items[t.k]))

\* Variants of the test in front of the send: no test, and a test never passed.
SendAlways(m) == TRUE
SendNever(m) == FALSE

\* "if mark_sent(...)": the send is attempted only on first-time.
SendIfFirst(m) == m.first

\* fetch_blackouts_raw returned (None, <error text>).
FetchFailed(r) == r.err # ""

\* A variant of the step to the next subscription without the skip of
\* line 794: a subscription is gone through whatever its flags.
TickNextSubAll(c, n) ==
    LET t == c.tick
    IN  IF t.i > Len(t.active)
        THEN [c EXCEPT !.cache = CacheSweep(@, n), !.tick = TickIdle]
        ELSE LET g == CacheGet(c.cache, TickSub(t).bill_id, t.j_today, n)
             IN  [c EXCEPT !.tick = IF g.hit
                                    THEN [t EXCEPT !.pc = "today", !.items = g.items,
                                                   !.k = 1, !.stage = "1h"]
                                    ELSE [t EXCEPT !.pc = "await_fetch_today"]]

\* Lines 792-798 and 878: the head of the loop over the subscriptions, up to
\* the cache lookup for today; after the last one, the sweep.
TickNextSub(c, n) ==
    LET t == c.tick
    IN  IF t.i > Len(t.active)
        THEN [c EXCEPT !.cache = CacheSweep(@, n), !.tick = TickIdle]
        ELSE IF ~(TickSub(t).a1h = 1 \/ TickSub(t).a10m = 1)
        THEN [c EXCEPT !.tick.i = @ + 1]
        ELSE LET g == CacheGet(c.cache, TickSub(t).bill_id, t.j_today, n)
             IN  [c EXCEPT !.tick = IF g.hit
                                    THEN [t EXCEPT !.pc = "today", !.items = g.items,
                                                   !.k = 1, !.stage = "1h"]
                                    ELSE [t EXCEPT !.pc = "await_fetch_today"]]

\* The stage after the one the tick is at: 10m after 1h, the next row after 10m.
TickAdvance(t) ==
    IF t.stage = "1h" THEN [t EXCEPT !.stage = "10m"]
    ELSE [t EXCEPT !.stage = "1h", !.k = @ + 1]

\* Whether the alert the tick is at is wanted and due (lines 815, 825, 854-856, 866-868).
TickDue(t) ==
    /\ (IF t.stage = "1h" THEN TickSub(t).a1h ELSE TickSub(t).a10m) = 1
    /\ IF t.pc = "today"
       THEN DueToday(t.items[t.k], Lead(t.stage), t.now_m, t.j_today)
       ELSE DueTomorrow(t.items[t.k], Lead(t.stage), t.now_m, t.j_tomorrow)

\* Lines 805-837 and 845-876: one alert kind of one row of items_today or
\* items_tom, up to the send; past the last row of today the cache lookup for
\* tomorrow, past the last row of tomorrow the next subscription.
TickItem(c, n) ==
    LET t == c.tick
    IN  IF t.k > Len(t.items)
        THEN IF t.pc = "tom"
             THEN [c EXCEPT !.tick = [t EXCEPT !.pc = "sub", !.i = @ + 1, !.items = <<>>,
                                               !.k = 0, !.stage = "1h"]]
             ELSE LET g == CacheGet(c.cache, TickSub(t).bill_id, t.j_tomorrow, n)
                  IN  [c EXCEPT !.tick = IF g.hit
                                         THEN [t EXCEPT !.pc = "tom", !.items = g.items,
                                                        !.k = 1, !.stage = "1h"]
                                         ELSE [t EXCEPT !.pc = "await_fetch_tom",
                                                        !.items = <<>>, !.k = 0,
                                                        !.stage = "1h"]]
        ELSE IF TickDue(t)
        THEN LET m == IF StoreDown(c) THEN MarkSentRaised(c.sent_alerts)
                      ELSE MarkSent(c.sent_alerts, TickRow(t))
             IN  [c EXCEPT !.sent_alerts = m.rows,
                           !.h = HMarked(@, TickRow(t), m.first),
                           !.tick = IF SendIfFirst(m)
                                    THEN [t EXCEPT !.ret = t.pc, !.pc = "await_send",
                                                   !.reserved = IF m.first
                                                                THEN <<TickRow(t)>> ELSE Nil]
                                    ELSE TickAdvance(t)]
        ELSE [c EXCEPT !.tick = TickAdvance(t)]

\* alerts_tick from where it is to its next await; an exception that leaves
\* it ends the run (the job queue logs it).
RECURSIVE TickRun(_, _)
TickRun(c, n) ==
    IF c.tick.pc = "sub" THEN TickRun(TickNextSub(c, n), n)
    ELSE IF c.tick.pc \in {"today", "tom"} THEN TickRun(TickItem(c, n), n)
    ELSE IF c.tick.pc = "raised"
    THEN [c EXCEPT !.tick = TickIdle, !.h.aborted = @ \cup {"alerts_tick"}]
    ELSE c

TickConf == [tick |-> tick, cache |-> cache, sent_alerts |-> sent_alerts, h |-> h]

TickResume(c) ==
    \E r \in {TickRun(c, now)} :
        tick' = r.tick /\ cache' = r.cache /\ sent_alerts' = r.sent_alerts /\ h' = r.h

\* Lines 781-785: the locals of a run with the subscriptions active.  The
\* clock is read three times: at n for the minute of the day (line 781), at
\* n_today inside jalali_today() and at n_tomorrow inside jalali_tomorrow().
TickBeginAt(active, n, n_today, n_tomorrow) ==
    [TickIdle EXCEPT !.pc = "sub", !.now_m = NowMinutes(n), !.j_today = JalaliToday(n_today),
                     !.j_tomorrow = JalaliTomorrow(n_tomorrow), !.active = active, !.i = 1]

\* The locals of a run whose three readings of the clock fall in the minute n.
TickBegin(active, n) == TickBeginAt(active, n, n, n)

\* Lines 781-788: read the clock, load the subscriptions, return if none;
\* fired by the job queue once a minute, and at once when the process starts.
TickStart ==
    /\ tick.pc = "idle"
    /\ sched.tick # now
    /\ sched' = [sched EXCEPT !.tick = now]
    /\ LET active == ListActive(bills, bill_alerts)
       IN  IF active = <<>>
           THEN UNCHANGED <<tick, cache, sent_alerts, h>>
           ELSE TickResume([TickConf EXCEPT !.tick = TickBegin(active, now)])
    /\ UNCHANGED <<live, now, source, bills, bill_alerts, digest>>

\* Lines 798-803: what the tick does with the response r to today's fetch.
TickOnToday(c0, r, n) ==
    LET t == c0.tick
        bill_id == TickSub(t).bill_id
        c == [c0 EXCEPT
                !.h = HFetched(@, <<bill_id, t.j_today>>, FetchFailed(r),
                               CacheGet(c0.cache, bill_id, t.j_today, n).hit)]
    IN  IF RespFalsy(r)
        THEN [c EXCEPT !.tick.pc = "sub", !.tick.i = @ + 1]
        ELSE IF RawRaises(r)
        THEN [c EXCEPT !.tick.pc = "raised"]
        ELSE LET items == OnlyDate(RawOf(r), t.j_today)
             IN  [c EXCEPT
                     !.cache = CacheSet(@, bill_id, t.j_today, items, n),
                     !.tick = [t EXCEPT !.pc = "today", !.items = items, !.k = 1,
                                        !.stage = "1h"]]

\* Lines 839-843: the same for tomorrow's fetch; a failed one counts as no rows.
TickOnTom(c0, r, n) ==
    LET t == c0.tick
        bill_id == TickSub(t).bill_id
        c == [c0 EXCEPT
                !.h = HFetched(@, <<bill_id, t.j_tomorrow>>, FetchFailed(r),
                               CacheGet(c0.cache, bill_id, t.j_tomorrow, n).hit)]
    IN  IF ~RespFalsy(r) /\ RawRaises(r)
        THEN [c EXCEPT !.tick.pc = "raised"]
        ELSE LET raw_tom == IF RespFalsy(r) THEN <<>> ELSE RawOf(r)
                 items   == OnlyDate(raw_tom, t.j_tomorrow)
             IN  [c EXCEPT
                     !.cache = CacheSet(@, bill_id, t.j_tomorrow, items, n),
                     !.tick = [t EXCEPT !.pc = "tom", !.items = items, !.k = 1,
                                        !.stage = "1h"]]

\* Lines 817-823, 827-833, 858-864, 870-876: what the tick does when
\* bot.send_message returns (ok) or raises and the except clause logs it.
TickOnSent(c, ok) ==
    [c EXCEPT
        !.h = HSent(@, TickRow(c.tick), ok, c.sent_alerts),
        !.tick = TickAdvance([c.tick EXCEPT !.pc = c.tick.ret, !.ret = "idle",
                                            !.reserved = Nil])]

\* The fetch for today returns.
TickFetchedToday(r) ==
    /\ tick.pc = "await_fetch_today"
    /\ TickResume(TickOnToday(TickConf, r, now))
    /\ UNCHANGED <<live, now, source, bills, bill_alerts, digest, sched>>

\* The fetch for tomorrow returns.
TickFetchedTom(r) ==
    /\ tick.pc = "await_fetch_tom"
    /\ TickResume(TickOnTom(TickConf, r, now))
    /\ UNCHANGED <<live, now, source, bills, bill_alerts, digest, sched>>

\* A variant of the sends without their try/except: a raise leaves the job.
TickSendUncaught(ok) ==
    /\ tick.pc = "await_send"
    /\ TickResume([TickConf EXCEPT
          !.h = HSent(@, TickRow(tick), ok, sent_alerts),
          !.tick = IF ok
                   THEN TickAdvance([tick EXCEPT !.pc = tick.ret, !.ret = "idle",
                                                 !.reserved = Nil])
                   ELSE [tick EXCEPT !.pc = "raised"]])
    /\ UNCHANGED <<live, now, source, bills, bill_alerts, digest, sched>>

\* bot.send_message returns or raises.
TickSendDone(ok) ==
    /\ tick.pc = "await_send"
    /\ TickResume(TickOnSent(TickConf, ok))
    /\ UNCHANGED <<live, now, source, bills, bill_alerts, digest, sched>>

-----------------------------------------------------------------------------
(* daily_digest_job *)

DigestSub(d) == d.active[d.i]
DigestRow(d) == SentRow(DigestSub(d).chat_id, DigestSub(d).bill_id, "1201", d.j_today,
                        <<"digest">>)

\* What the run notes of the subscription it is at.
DigestNote(d, got, led) ==
    Append(d.log, [i |-> d.i, row |-> DigestRow(d), got |-> got,
                   had |-> DigestRow(d) \in led])

\* The job after its run: only the notes of the run stay.
DigestOver(d) == [DigestIdle EXCEPT !.log = d.log, !.sent = d.sent]

\* Lines 747-753 and 769: the head of the loop, up to the cache lookup; after
\* the last subscription, the sweep.
DigestNextSub(c, n) ==
    LET d == c.digest
    IN  IF d.i > Len(d.active)
        THEN [c EXCEPT !.cache = CacheSweep(@, n), !.digest = DigestOver(d)]
        ELSE IF DigestSub(d).a1201 # 1
        THEN [c EXCEPT !.digest.i = @ + 1]
        ELSE LET g == CacheGet(c.cache, DigestSub(d).bill_id, d.j_today, n)
             IN  [c EXCEPT !.digest = IF g.hit
                                      THEN [d EXCEPT !.pc = "mark", !.items = g.items]
                                      ELSE [d EXCEPT !.pc = "await_fetch"]]

\* Line 761: the ledger insert; the digest is sent whatever the items are.
DigestMark(c) ==
    LET d == c.digest
        m == MarkSent(c.sent_alerts, DigestRow(d))
        noted == [d EXCEPT !.log = DigestNote(d, TRUE, c.sent_alerts)]
    IN  [c EXCEPT !.sent_alerts = m.rows,
                  !.h = HMarked(@, DigestRow(d), m.first),
                  !.digest = IF SendIfFirst(m)
                             THEN [noted EXCEPT !.pc = "await_send",
                                                !.reserved = IF m.first
                                                             THEN <<DigestRow(d)>> ELSE Nil]
                             ELSE [noted EXCEPT !.pc = "sub", !.i = @ + 1, !.items = <<>>]]

\* daily_digest_job from where it is to its next await.
RECURSIVE DigestRun(_, _)
DigestRun(c, n) ==
    IF c.digest.pc = "sub" THEN DigestRun(DigestNextSub(c, n), n)
    ELSE IF c.digest.pc = "mark" THEN DigestRun(DigestMark(c), n)
    ELSE IF c.digest.pc = "raised"
    THEN [c EXCEPT !.digest = DigestOver(c.digest),
                   !.h.aborted = @ \cup {"daily_digest_job"}]
    ELSE c

DigestConf == [digest |-> digest, cache |-> cache, sent_alerts |-> sent_alerts, h |-> h]

DigestResume(c) ==
    \E r \in {DigestRun(c, now)} :
        digest' = r.digest /\ cache' = r.cache /\ sent_alerts' = r.sent_alerts /\ h' = r.h

\* Lines 744-745: the locals of a run that starts at n.
DigestBegin(active, n) ==
    [DigestIdle EXCEPT !.pc = "sub", !.j_today = JalaliToday(n), !.active = active, !.i = 1]

\* Lines 744-746, fired by the job queue once a day at 00:01.
DigestStart ==
    /\ digest.pc = "idle"
    /\ now.min = DIGEST_MINUTE /\ sched.digest # now.jdn
    /\ sched' = [sched EXCEPT !.digest = now.jdn]
    /\ LET active == ListActive(bills, bill_alerts)
       IN  IF active = <<>>
           THEN digest' = DigestIdle /\ UNCHANGED <<cache, sent_alerts, h>>
           ELSE DigestResume([DigestConf EXCEPT !.digest = DigestBegin(active, now)])
    /\ UNCHANGED <<live, now, source, bills, bill_alerts, tick>>

\* Lines 753-759: what the job does with the response r to its fetch.
DigestOnFetched(c0, r, n) ==
    LET d == c0.digest
        bill_id == DigestSub(d).bill_id
        c == [c0 EXCEPT
                !.h = HFetched(@, <<bill_id, d.j_today>>, FetchFailed(r),
                               CacheGet(c0.cache, bill_id, d.j_today, n).hit)]
    IN  IF RespFalsy(r)
        THEN [c EXCEPT
                !.digest = [d EXCEPT !.pc = "sub", !.i = @ + 1,
                               !.log = DigestNote(d, FALSE, c0.sent_alerts)]]
        ELSE IF RawRaises(r)
        THEN [c EXCEPT !.digest.pc = "raised"]
        ELSE LET items == OnlyDate(RawOf(r), d.j_today)
             IN  [c EXCEPT
                     !.cache = CacheSet(@, bill_id, d.j_today, items, n),
                     !.digest = [d EXCEPT !.pc = "mark", !.items = items]]

\* Lines 762-768: what the job does when bot.send_message returns, or raises
\* and is logged.
DigestOnSent(c, ok) ==
    [c EXCEPT
        !.h = HSent(@, DigestRow(c.digest), ok, c.sent_alerts),
        !.digest = [c.digest EXCEPT !.pc = "sub", !.i = @ + 1, !.items = <<>>,
                                    !.reserved = Nil,
                                    !.sent = BagAdd(@, DigestRow(c.digest))]]

\* The fetch returns.
DigestFetched(r) ==
    /\ digest.pc = "await_fetch"
    /\ DigestResume(DigestOnFetched(DigestConf, r, now))
    /\ UNCHANGED <<live, now, source, bills, bill_alerts, tick, sched>>

\* bot.send_message returns or raises.
DigestSendDone(ok) ==
    /\ digest.pc = "await_send"
    /\ DigestResume(DigestOnSent(DigestConf, ok))
    /\ UNCHANGED <<live, now, source, bills, bill_alerts, tick, sched>>

-----------------------------------------------------------------------------
(* cleanup_old_alerts, the interactive handlers, restart and the clock *)

\* DELETE FROM sent_alerts WHERE jdate < cutoff_j, fired once a day at 03:00.
Cleanup ==
    /\ now.min = CLEANUP_MINUTE /\ sched.cleanup # now.jdn
    /\ sched' = [sched EXCEPT !.cleanup = now.jdn]
    /\ LET gone == {r \in sent_alerts : JLess(r[4], CutoffJ(now))}
       IN  /\ sent_alerts' = sent_alerts \ gone
           /\ h' = HRemoved(h, gone, FALSE)
    /\ UNCHANGED <<live, now, source, bills, bill_alerts, cache, tick, digest>>

\* on_button "toggle:<key>:<bill_id>": flip the flag read by get_alerts.
Toggle(chat_id, bill_id, key) ==
    /\ LET cur == GetAlerts(bill_alerts, chat_id, bill_id)[key]
       IN  bill_alerts' = SetAlert(bill_alerts, chat_id, bill_id, key,
                                   IF cur # 0 THEN 0 ELSE 1)
    /\ UNCHANGED <<live, now, source, bills, sent_alerts, cache, tick, digest, sched, h>>

\* on_text in state await_bill_name: add_or_update_bill.
Register(chat_id, name, bill_id) ==
    /\ LET r == AddOrUpdateBill(bills, bill_alerts, chat_id, name, bill_id)
       IN  bills' = r.bills /\ bill_alerts' = r.alerts
    /\ UNCHANGED <<live, now, source, sent_alerts, cache, tick, digest, sched, h>>

\* on_button "q:now", lines 629-634: with a list for live_items the answer
\* is shown; else the fallback reads the dates and fetches today's schedule.
QueryDecide(q, live_items, t) ==
    IF live_items[1] = "list"
    THEN [q EXCEPT !.pc = "idle", !.shown = <<"live", live_items[2]>>]
    ELSE [q EXCEPT !.pc = "await_today", !.j_today = JalaliToday(t),
                   !.j_yesterday = JalaliYesterday(t)]

\* Lines 620-623: the lookup in the live cache, and the live call on None.
QueryStart(bill_id) ==
    /\ query.pc = "idle"
    /\ LET live_items == NowCacheGet(now_cache, bill_id, now)
           q == [QueryIdle EXCEPT !.bill_id = bill_id, !.had = live_items]
       IN  query' = IF live_items = PyNone THEN [q EXCEPT !.pc = "await_live"]
                    ELSE QueryDecide(q, live_items, now)
    /\ UNCHANGED <<now, source, bills, bill_alerts, sent_alerts, cache, now_cache, tick,
                   digest, sched, h>>

\* Lines 623-628: the live call returns; a truthy body is cached.
QueryLiveFetched(r) ==
    /\ query.pc = "await_live"
    /\ LET live_items == IF RespFalsy(r) THEN PyNone ELSE LiveItemsOf(r)
       IN  /\ now_cache' = IF RespFalsy(r) THEN now_cache
                           ELSE NowCacheSet(now_cache, query.bill_id, live_items, now)
           /\ query' = QueryDecide([query EXCEPT !.called = TRUE, !.resp_live = r],
                                   live_items, now)
    /\ UNCHANGED <<now, source, bills, bill_alerts, sent_alerts, cache, tick, digest, sched,
                   h>>

\* Line 635: the fetch of today's schedule returns.
QueryTodayFetched(r) ==
    /\ query.pc = "await_today"
    /\ query' = [query EXCEPT !.pc = "await_yesterday", !.resp_t = r, !.fetched = @ + 1]
    /\ UNCHANGED <<now, source, bills, bill_alerts, sent_alerts, cache, now_cache, tick,
                   digest, sched, h>>

\* Lines 636-644: the fetch of yesterday's schedule returns; the rows of both
\* days go through the filter, unless both fetches came back with nothing.
QueryYesterdayFetched(r) ==
    /\ query.pc = "await_yesterday"
    /\ query' = IF RespFalsy(query.resp_t) /\ RespFalsy(r)
                THEN [query EXCEPT !.pc = "idle", !.fetched = @ + 1, !.shown = <<"error">>]
                ELSE LET raw == RawOf(r) \o RawOf(query.resp_t)
                     IN  [query EXCEPT
                             !.pc = "idle", !.fetched = @ + 1, !.raw = raw,
                             !.now_hm = NowHm(now),
                             !.shown = <<"fallback",
                                         FilterCurrent(raw, NowHm(now), query.j_today,
                                                       query.j_yesterday)>>]
    /\ UNCHANGED <<now, source, bills, bill_alerts, sent_alerts, cache, now_cache, tick,
                   digest, sched, h>>

\* on_button "del:yes:<bill_id>": delete_bill_and_related.
DeleteBill(chat_id, bill_id) ==
    /\ IF ~Owned(bills, chat_id, bill_id)
       THEN UNCHANGED <<bills, bill_alerts, sent_alerts, cache, now_cache, h>>
       ELSE LET gone == {r \in sent_alerts : r[1] = chat_id /\ r[2] = bill_id}
            IN  /\ bill_alerts' = [k \in DOMAIN bill_alerts \ {<<chat_id, bill_id>>} |->
                                      bill_alerts[k]]
                /\ sent_alerts' = sent_alerts \ gone
                /\ bills' = SelectSeq(bills, LAMBDA b :
                                         ~(b.chat_id = chat_id /\ b.bill_id = bill_id))
                /\ cache' = CacheDeleteBill(cache, bill_id)
                /\ now_cache' = NowCacheDeleteBill(now_cache, bill_id)
                /\ h' = HRemoved(h, gone, TRUE)
    /\ UNCHANGED <<now, source, query, tick, digest, sched>>

\* The process stops and run() starts again: the database stays, the caches
\* and the running jobs are gone, and the tick fires at once (first=0).
Restart ==
    /\ cache' = [k \in {} |-> 0]
    /\ now_cache' = [k \in {} |-> 0]
    /\ query' = QueryIdle
    /\ tick' = TickIdle
    /\ digest' = DigestIdle
    /\ sched' = [sched EXCEPT !.tick = NoInstant]
    /\ UNCHANGED <<now, source, bills, bill_alerts, sent_alerts, h>>

\* The clock moves on to the next instant of the day, or to the first of the
\* next day, up to the last day.
Advance(minutes, last_day) ==
    /\ LET later == {m \in minutes : m > now.min}
       IN  IF later # {}
           THEN now' = [now EXCEPT !.min = CHOOSE m \in later : \A x \in later : m <= x]
           ELSE /\ now.jdn < last_day
                /\ now' = [jdn |-> now.jdn + 1,
                           min |-> CHOOSE m \in minutes : \A x \in minutes : m <= x]
    /\ UNCHANGED <<live, source, bills, bill_alerts, sent_alerts, cache, tick, digest, sched, h>>

-----------------------------------------------------------------------------
(* The system: scheduler jobs, handlers, restarts and the clock *)

\* The environment makes at most MaxFaults faults (a failed or odd fetch
\* response, a send that raises, a restart) and MaxUserOps user requests, and
\* the clock moves on MaxAdvance times from the instant the process starts at.
MaxFaults == 1
MaxUserOps == 3
MaxAdvance == 1

\* The instants of a day at which the model looks at the system: 00:01 (the
\* digest), 03:00 (the cleanup), 13:00 and 13:01 (the alerts of today's rows)
\* and 23:55 (the alerts of tomorrow's rows).
Minutes == {1, 180, 780, 781, 1435}
LastDay == Day0 + 1

\* The instants the process may be started at.
Starts == {1, 780, 1435}

\* A ledger row left from 1404/05/10, more than the retention ago.
OldRow == SentRow(1, "A", "1201", <<1404, 5, 10>>, <<"digest">>)

AllOn == [a1h |-> 1, a10m |-> 1, a1201 |-> 1]
Only10m == [a1h |-> 0, a10m |-> 1, a1201 |-> 0]

Init ==
    /\ now \in {[jdn |-> Day0, min |-> m] : m \in Starts}
    /\ source = Schedule0
    /\ bills = << [chat_id |-> 1, name |-> "home", bill_id |-> "A"],
                  [chat_id |-> 1, name |-> "office", bill_id |-> "B"] >>
    /\ bill_alerts = [k \in {<<1, "A">>, <<1, "B">>} |->
                         IF k[2] = "A" THEN AllOn ELSE Only10m]
    /\ sent_alerts = {OldRow}
    /\ cache = [k \in {} |-> 0]
    /\ now_cache = [k \in {} |-> 0]
    /\ query = QueryIdle
    /\ tick = TickIdle
    /\ digest = DigestIdle
    /\ sched = [tick |-> NoInstant, digest |-> 0, cleanup |-> 0]
    /\ h = HistOf(sent_alerts)
    /\ budget = [faults |-> 0, ops |-> 0, adv |-> 0]

\* A response the environment may give: the rows asked for, or a fault.
Nominal(r) == r.kind = "dict"
Fault == budget.faults < MaxFaults /\ budget' = [budget EXCEPT !.faults = @ + 1]
UserOp == budget.ops < MaxUserOps /\ budget' = [budget EXCEPT !.ops = @ + 1]
MayRespond(r) == IF Nominal(r) THEN UNCHANGED budget ELSE Fault
MaySend(ok) == IF ok THEN UNCHANGED budget ELSE Fault

\* The jobs and the handlers interleave at the awaits of the jobs.  The user
\* of chat 1 toggles the kinds of subject A, deletes it when it is
\* registered and registers it when it is not (the other requests change
\* nothing).  The clock moves on between the runs of the jobs: a run is
\* taken to end within its minute.
Next ==
    \/ TickStart /\ UNCHANGED budget
    \/ /\ tick.pc = "await_fetch_today"
       /\ \E r \in Responses(source, TickSub(tick).bill_id, tick.j_today, tick.j_today) :
             TickFetchedToday(r) /\ MayRespond(r)
    \/ /\ tick.pc = "await_fetch_tom"
       /\ \E r \in Responses(source, TickSub(tick).bill_id, tick.j_tomorrow, tick.j_tomorrow) :
             TickFetchedTom(r) /\ MayRespond(r)
    \/ \E ok \in BOOLEAN : TickSendDone(ok) /\ MaySend(ok)
    \/ DigestStart /\ UNCHANGED budget
    \/ /\ digest.pc = "await_fetch"
       /\ \E r \in Responses(source, DigestSub(digest).bill_id, digest.j_today, digest.j_today) :
             DigestFetched(r) /\ MayRespond(r)
    \/ \E ok \in BOOLEAN : DigestSendDone(ok) /\ MaySend(ok)
    \/ Cleanup /\ UNCHANGED budget
    \/ \E key \in {"a1h", "a10m", "a1201"} : Toggle(1, "A", key) /\ UserOp
    \/ ~Owned(bills, 1, "A") /\ Register(1, "home", "A") /\ UserOp
    \/ Owned(bills, 1, "A") /\ DeleteBill(1, "A") /\ UserOp
    \/ Restart /\ Fault
    \/ /\ tick.pc = "idle" /\ digest.pc = "idle"
       /\ budget.adv < MaxAdvance /\ budget' = [budget EXCEPT !.adv = @ + 1]
       /\ Advance(Minutes, LastDay)

Spec == Init /\ [][Next]_vars

-----------------------------------------------------------------------------
(* At-most-once delivery (C1, C2, C3) *)

\* The rows of today's 14:00 outage of subject A: its one-hour alert.
RowA1h == SentRow(1, "A", "1h", Date0, <<"id", <<7>>>>)

\* C1 as stated: over ticks, digest runs, sweeps, toggles, deletions and
\* re-registrations and restarts, at most one notification is ever sent for a
\* tuple (chat_id, bill_id, kind, date, identity).
C1_AtMostOneEver ==
    \A row \in DOMAIN h.sent : h.sent[row] <= 1

\* C1 amended: at most one notification is sent for a tuple, plus one for
\* each time a bill deletion has removed the tuple's ledger row.
C1_AtMostOnePerLedgerRow ==
    \A row \in DOMAIN h.sent : h.sent[row] <= Count(h.removed, row) + 1

\* The tick of 13:00 fetched A's rows and the alert was sent; the tick of
\* 13:01, still within the window, has run and sent no second one.
C1_Witness ==
    /\ now = [jdn |-> Day0, min |-> 781] /\ sched.tick = now /\ tick.pc = "idle"
    /\ <<"A", Date0>> \in DOMAIN cache
    /\ cache[<<"A", Date0>>].ts = Timestamp([jdn |-> Day0, min |-> 780])
    /\ Count(h.sent, RowA1h) = 1 /\ Count(h.calls, RowA1h) = 2

\* C2: every send by alerts_tick or daily_digest_job is of the row the job
\* has reserved in this run by a mark_sent that returned True, and not yet
\* sent; so nothing is sent after a mark_sent that returned False.
C2_ReserveThenSend ==
    [][\A row \in DOMAIN h'.sent :
          Count(h'.sent, row) > Count(h.sent, row) =>
             \/ tick.pc = "await_send" /\ tick.reserved = <<row>> /\ tick' # tick
             \/ digest.pc = "await_send" /\ digest.reserved = <<row>> /\ digest' # digest]_vars

\* An alert and a digest have been sent, and a later mark_sent for the alert
\* returned False.
C2_Witness ==
    /\ \E row \in DOMAIN h.sent : row[3] = "1201" /\ row # OldRow
    /\ \E row \in DOMAIN h.sent :
          row[3] # "1201" /\ Count(h.calls, row) > Count(h.firsts, row)

\* C3: among the calls of mark_sent with a tuple since its row was last
\* deleted, exactly one returned True, and the row is in the ledger.
C3_FirstExactlyOnce ==
    \A row \in DOMAIN h.calls :
        Count(h.firsts, row) = 1 /\ row \in sent_alerts

\* mark_sent has been called three times with one tuple.
C3_Witness ==
    \E row \in DOMAIN h.calls : h.calls[row] >= 3 /\ Count(h.firsts, row) = 1

-----------------------------------------------------------------------------
(* The digest and the fetch failures (C7, C8, C9) *)

\* The run is past the subscription of a note of its log.
DigestDone(e) == digest.pc = "idle" \/ e.i < digest.i

\* The notes of the run for a ledger row made when the day's rows were
\* obtained and the ledger had no digest row.
DigestOwed(row) ==
    {n \in 1..Len(digest.log) :
        digest.log[n].row = row /\ digest.log[n].got /\ ~digest.log[n].had}

C8_FailedFetchNotCached ==
    \A key \in h.fetch_failed : ~CacheGet(cache, key[1], key[2], now).hit

\* C9 as stated: whatever a fetch returns, no run of alerts_tick or of
\* daily_digest_job is ended by an exception.
C9_NoJobAborted ==
    h.aborted = {}

-----------------------------------------------------------------------------
(* A send that raises (C10) *)

\* The alert of subject B's 13:10 outage of today: its ten-minute alert.
RowB10m == SentRow(1, "B", "10m", Date0,
                   <<"composite", Date0, <<13, 10>>, <<15, 0>>, <<"south">>>>)

\* C10 as stated, its last part: once the send of a tuple has raised, no
\* later tick or digest run sends that tuple again.
C10_NeverSentAgain ==
    \A row \in DOMAIN h.failed : Count(h.sent, row) = h.failed[row].sent

\* C10 amended: the step in which a send raises removes nothing from the
\* ledger and does not end the job by an exception, and the tuple is sent
\* again only after a bill deletion has removed its ledger row.
C10_FailedSendIsFinal ==
    /\ [](\A row \in DOMAIN h.failed :
            Count(h.sent, row) - h.failed[row].sent
               <= Count(h.removed, row) - h.failed[row].removed)
    /\ [][DOMAIN h'.failed # DOMAIN h.failed =>
             sent_alerts \subseteq sent_alerts' /\ h'.aborted = h.aborted]_vars

\* The send of A's alert raised at 13:00; the tick went on to send B's
\* alert, and the tick of 13:01 called mark_sent for A's alert and did not
\* send it.
C10_Witness ==
    /\ now = [jdn |-> Day0, min |-> 781] /\ sched.tick = now /\ tick.pc = "idle"
    /\ RowA1h \in DOMAIN h.failed /\ RowA1h \in sent_alerts
    /\ Count(h.sent, RowA1h) = 1 /\ Count(h.calls, RowA1h) = 2
    /\ Count(h.sent, RowB10m) = 1

-----------------------------------------------------------------------------
(* The matcher by itself (C5, C6) *)

\* The start texts the matcher is given: around the two leads, the ends of
\* the day, and two that are no "HH:MM".
MatcherStarts ==
    {<<0, 0>>, <<0, 5>>, <<0, 9>>, <<0, 10>>, <<0, 59>>, <<1, 0>>, <<1, 1>>, <<7, 0>>,
     <<23, 59>>, <<7>>, Nil}

\* alerts_tick at the first row of a pass over one row, at any minute of the
\* day, for a subscription with both lead kinds enabled.
InitMatcher ==
    /\ now \in {[jdn |-> Day0, min |-> m] : m \in 0..(24 * 60 - 1)}
    /\ source = Schedule0
    /\ bills = <<[chat_id |-> 1, name |-> "home", bill_id |-> "A"]>>
    /\ bill_alerts = [k \in {<<1, "A">>} |-> AllOn]
    /\ sent_alerts = {}
    /\ cache = [k \in {} |-> 0]
    /\ now_cache = [k \in {} |-> 0]
    /\ query = QueryIdle
    /\ \E pass \in {"today", "tom"}, date \in {Date0, Date1}, start \in MatcherStarts :
          tick = [TickIdle EXCEPT
                    !.pc = pass, !.now_m = NowMinutes(now), !.j_today = JalaliToday(now),
                    !.j_tomorrow = JalaliTomorrow(now),
                    !.active = ListActive(bills, bill_alerts), !.i = 1,
                    !.items = <<Rec(date, start, <<23, 59>>, Nil, <<"north">>)>>, !.k = 1]
    /\ digest = DigestIdle
    /\ sched = [tick |-> now, digest |-> 0, cleanup |-> 0]
    /\ h = HistOf({})
    /\ budget = [faults |-> 0, ops |-> 0, adv |-> 0]

\* One alert kind of the row: the guard, and mark_sent if it holds.
MatchKind ==
    /\ tick.pc \in {"today", "tom"} /\ tick.k <= Len(tick.items)
    /\ \E r \in {TickItem(TickConf, now)} :
          tick' = r.tick /\ sent_alerts' = r.sent_alerts /\ h' = r.h
    /\ UNCHANGED <<live, now, source, bills, bill_alerts, cache, digest, sched, budget>>

\* The send returns and the loop goes on to the next kind.
MatchSent ==
    /\ tick.pc = "await_send"
    /\ tick' = TickAdvance([tick EXCEPT !.pc = tick.ret, !.ret = "idle", !.reserved = Nil])
    /\ h' = HSent(h, TickRow(tick), TRUE, sent_alerts)
    /\ UNCHANGED <<live, now, source, bills, bill_alerts, sent_alerts, cache, digest, sched, budget>>

NextMatcher == MatchKind \/ MatchSent

SpecMatcher == InitMatcher /\ [][NextMatcher]_vars

\* The start of a row is a well-formed "HH:MM"; its minute of the day.
HasStart(it) == Len(StartHm(it)) = 2
StartMinute(it) == StartHm(it)[1] * 60 + StartHm(it)[2]

\* C5: in the today pass a row dated today with start minute s is due for
\* the kind of lead L exactly when s-L >= 0 and s-L <= now_m < s-L+2.
C5_TodayPass ==
    [][tick.pc = "today" /\ tick' # tick =>
         LET it == tick.items[tick.k]
             L  == IF tick.stage = "1h" THEN 60 ELSE 10
         IN  (tick'.pc = "await_send") <=>
                /\ ItemDate(it) = tick.j_today /\ HasStart(it)
                /\ LET s == StartMinute(it)
                   IN  s - L >= 0 /\ s - L <= tick.now_m /\ tick.now_m < s - L + 2]_vars

\* The ten-minute alert of a row of today starting at 00:10 is due at 00:01,
\* the second and last minute of its window.
C5_Witness ==
    /\ tick.pc = "await_send" /\ tick.ret = "today" /\ tick.stage = "10m"
    /\ StartHm(tick.items[tick.k]) = <<0, 10>> /\ tick.now_m = 1

\* C6: in the tomorrow pass a row dated tomorrow with start minute s is due
\* for the kind of lead L exactly when s < L and, with t = 1440-(L-s),
\* t <= now_m < t+2.
C6_TomorrowPass ==
    [][tick.pc = "tom" /\ tick' # tick =>
         LET it == tick.items[tick.k]
             L  == IF tick.stage = "1h" THEN 60 ELSE 10
         IN  (tick'.pc = "await_send") <=>
                /\ ItemDate(it) = tick.j_tomorrow /\ HasStart(it)
                /\ LET s == StartMinute(it)
                       t == 1440 - (L - s)
                   IN  s < L /\ t <= tick.now_m /\ tick.now_m < t + 2]_vars

\* The ten-minute alert of a row of tomorrow starting at 00:05 is due at
\* 23:55.
C6_Witness ==
    /\ tick.pc = "await_send" /\ tick.ret = "tom" /\ tick.stage = "10m"
    /\ StartHm(tick.items[tick.k]) = <<0, 5>> /\ tick.now_m = 1435

-----------------------------------------------------------------------------
(* One alert from end to end (C4) *)

\* A winter day: 2025-02-01, which the official calendar calls 1403/11/13.
DayW == G2D(2025, 2, 1)

\* The civil (official solar-Hijri) date of the two days, as the outage
\* source writes it in outage_date.
CivilDate(jdn) == IF jdn = DayW THEN <<1403, 11, 13>> ELSE Date0

\* The start minutes of the one outage of the day.
E2EStarts == {60, 61, 90, 120, 420, 840, 1200, 1439}

\* The minutes watched: from two before the alert is due to two after.
E2EFirst(s) == IF s - 62 >= 0 THEN s - 62 ELSE 0
E2ELast(s) == s - 58

\* Subject A has one outage today, at minute s; the process starts before
\* the one-hour alert is due.
InitE2E ==
    \E day \in {Day0, DayW}, s \in E2EStarts :
        /\ now = [jdn |-> day, min |-> E2EFirst(s)]
        /\ source = [b \in {"A", "B"} |->
                        IF b = "A"
                        THEN <<Rec(CivilDate(day), <<s \div 60, s % 60>>, <<23, 59>>, <<7>>,
                                   <<"north">>)>>
                        ELSE <<>>]
        /\ bills = << [chat_id |-> 1, name |-> "home", bill_id |-> "A"],
                      [chat_id |-> 1, name |-> "office", bill_id |-> "B"] >>
        /\ bill_alerts = [k \in {<<1, "A">>, <<1, "B">>} |->
                             IF k[2] = "A" THEN AllOn ELSE Only10m]
        /\ sent_alerts = {}
        /\ cache = [k \in {} |-> 0]
        /\ now_cache = [k \in {} |-> 0]
        /\ query = QueryIdle
        /\ tick = TickIdle
        /\ digest = DigestIdle
        /\ sched = [tick |-> NoInstant, digest |-> 0, cleanup |-> 0]
        /\ h = HistOf({})
        /\ budget = [faults |-> 0, ops |-> 0, adv |-> 0]

\* The start minute of the outage, and the ledger row of its one-hour alert.
E2EStart == StartMinute(source["A"][1])
E2ERow == SentRow(1, "A", "1h", CivilDate(now.jdn), <<"id", <<7>>>>)

\* The tick of this minute has run, and the next minute begins.
NextMinute ==
    /\ tick.pc = "idle" /\ sched.tick = now
    /\ now.min < E2ELast(E2EStart)
    /\ now' = [now EXCEPT !.min = @ + 1]
    /\ UNCHANGED <<live, source, bills, bill_alerts, sent_alerts, cache, tick, digest, sched, h,
                   budget>>

\* Ticks once a minute; every fetch and every send succeeds.
NextE2E ==
    \/ TickStart /\ UNCHANGED budget
    \/ /\ tick.pc = "await_fetch_today"
       /\ \E r \in Responses(source, TickSub(tick).bill_id, tick.j_today, tick.j_today) :
             Nominal(r) /\ TickFetchedToday(r) /\ UNCHANGED budget
    \/ /\ tick.pc = "await_fetch_tom"
       /\ \E r \in Responses(source, TickSub(tick).bill_id, tick.j_tomorrow, tick.j_tomorrow) :
             Nominal(r) /\ TickFetchedTom(r) /\ UNCHANGED budget
    \/ TickSendDone(TRUE) /\ UNCHANGED budget
    \/ NextMinute

SpecE2E == InitE2E /\ [][NextE2E]_vars

\* C4: with the one-hour kind enabled and an outage of today starting at
\* minute s >= 60, nothing is sent before minute s-60, and once the tick of
\* minute s-60 has run, and still after that of s-60+1, exactly one
\* notification has been sent and its row is in the ledger.
C4_OneAlertAtTheHour ==
    /\ Count(h.sent, E2ERow) <= 1
    /\ now.min < E2EStart - 60 => Count(h.sent, E2ERow) = 0
    /\ now.min >= E2EStart - 60 /\ tick.pc = "idle" /\ sched.tick = now =>
          Count(h.sent, E2ERow) = 1 /\ E2ERow \in sent_alerts

\* C4 on the autumn day alone.
C4_Autumn == now.jdn = Day0 => C4_OneAlertAtTheHour

\* The tick of minute s-60+1 has run on the autumn day after the alert was sent.
C4_AutumnWitness ==
    /\ now.jdn = Day0 /\ now.min = E2EStart - 59 /\ tick.pc = "idle" /\ sched.tick = now
    /\ Count(h.sent, E2ERow) = 1 /\ Count(h.calls, E2ERow) = 2

-----------------------------------------------------------------------------
(* The scheduler next to the one without the cache (C11) *)

\* The twin is the same scheduler with every cache lookup a miss: the jobs'
\* own steps, run on an empty cache.  It has a ledger and a history of its
\* own and sees the clock, the subscriptions and the source of the real one.
\* The source answers a fetch by what it holds at that minute: the rows from
\* the date asked for on, or a failure while the key is down.

NoCache == [k \in {} |-> 0]

Answer(src, down, bill_id, date) ==
    IF <<bill_id, date>> \in down
    THEN [kind |-> "none", data |-> <<>>, err |-> "Network error"]
    ELSE [kind |-> "dict",
          data |-> SelectSeq(src[bill_id], LAMBDA it : ~JLess(it.outage_date, date)),
          err |-> ""]

\* The schedule after the source has added an outage of today for A at 14:01.
Schedule1 ==
    [b \in {"A", "B"} |->
        IF b = "A"
        THEN Append(Schedule0["A"], Rec(Date0, <<14, 1>>, <<16, 0>>, <<8>>, <<"north">>))
        ELSE Schedule0["B"]]

\* A whole run of alerts_tick without the cache: every await is resumed with
\* the source's answer, every send returns.
RECURSIVE TwinTickRun(_, _, _, _)
TwinTickStep(r, n, src, down) ==
    IF r.tick.pc = "await_fetch_today"
    THEN TwinTickRun(TickOnToday(r, Answer(src, down, TickSub(r.tick).bill_id,
                                           r.tick.j_today), n), n, src, down)
    ELSE IF r.tick.pc = "await_fetch_tom"
    THEN TwinTickRun(TickOnTom(r, Answer(src, down, TickSub(r.tick).bill_id,
                                         r.tick.j_tomorrow), n), n, src, down)
    ELSE IF r.tick.pc = "await_send"
    THEN TwinTickRun(TickOnSent(r, TRUE), n, src, down)
    ELSE r

TwinTickRun(c, n, src, down) ==
    CHOOSE y \in {TwinTickStep(r, n, src, down) :
                    r \in {TickRun([c EXCEPT !.cache = NoCache], n)}} : TRUE

\* A whole run of daily_digest_job without the cache.
RECURSIVE TwinDigestRun(_, _, _, _)
TwinDigestStep(r, n, src, down) ==
    IF r.digest.pc = "await_fetch"
    THEN TwinDigestRun(DigestOnFetched(r, Answer(src, down, DigestSub(r.digest).bill_id,
                                                 r.digest.j_today), n), n, src, down)
    ELSE IF r.digest.pc = "await_send"
    THEN TwinDigestRun(DigestOnSent(r, TRUE), n, src, down)
    ELSE r

TwinDigestRun(c, n, src, down) ==
    CHOOSE y \in {TwinDigestStep(r, n, src, down) :
                    r \in {DigestRun([c EXCEPT !.cache = NoCache], n)}} : TRUE

\* The twin before its first run: its ledger and history, when its jobs last
\* ran, and the cache keys the source fails for at this minute.
TwinInit ==
    [sent_alerts |-> {}, h |-> HistOf({}), tick_at |-> NoInstant, digest_at |-> 0,
     down |-> {}]

\* The twin's tick of this minute, over the schedule src.
TwinTickOn(src) ==
    /\ h.twin.tick_at # now
    /\ LET w == h.twin
           active == ListActive(bills, bill_alerts)
           c == [tick |-> TickBegin(active, now), cache |-> NoCache,
                 sent_alerts |-> w.sent_alerts, h |-> w.h]
       IN  \E r \in {IF active = <<>> THEN c ELSE TwinTickRun(c, now, src, w.down)} :
              h' = [h EXCEPT !.twin = [w EXCEPT !.sent_alerts = r.sent_alerts, !.h = r.h,
                                                !.tick_at = now]]
    /\ UNCHANGED <<live, now, source, bills, bill_alerts, sent_alerts, cache, tick, digest, sched,
                   budget>>

TwinTick == TwinTickOn(source)

\* The twin's digest run of the day.
TwinDigest ==
    /\ now.min = DIGEST_MINUTE /\ h.twin.digest_at # now.jdn
    /\ LET w == h.twin
           active == ListActive(bills, bill_alerts)
           c == [digest |-> DigestBegin(active, now), cache |-> NoCache,
                 sent_alerts |-> w.sent_alerts, h |-> w.h]
       IN  \E r \in {IF active = <<>> THEN c ELSE TwinDigestRun(c, now, source, w.down)} :
              h' = [h EXCEPT !.twin = [w EXCEPT !.sent_alerts = r.sent_alerts, !.h = r.h,
                                                !.digest_at = now.jdn]]
    /\ UNCHANGED <<live, now, source, bills, bill_alerts, sent_alerts, cache, tick, digest, sched,
                   budget>>

\* The instants looked at: 00:01, 13:00, 13:01, 23:55 and 23:56 of two days.
TwinMinutes == {1, 780, 781, 1435, 1436}
TwinKeys == {<<b, d>> : b \in {"A", "B"}, d \in {Date0, Date1}}

\* Both schedulers have run the jobs of this minute to their ends.
TwinQuiet ==
    /\ tick.pc = "idle" /\ digest.pc = "idle"
    /\ sched.tick = now /\ h.twin.tick_at = now
    /\ now.min = DIGEST_MINUTE => sched.digest = now.jdn /\ h.twin.digest_at = now.jdn

\* The clock moves on; over the next minute the source answers every fetch,
\* or fails for one key, or has added a row to its schedule.
TwinAdvance ==
    /\ TwinQuiet
    /\ LET later == {m \in TwinMinutes : m > now.min}
       IN  IF later # {}
           THEN now' = [now EXCEPT !.min = CHOOSE m \in later : \A x \in later : m <= x]
           ELSE /\ now.jdn < LastDay
                /\ now' = [jdn |-> now.jdn + 1,
                           min |-> CHOOSE m \in TwinMinutes : \A x \in TwinMinutes : m <= x]
    /\ \/ /\ source' = source /\ h' = [h EXCEPT !.twin.down = {}]
          /\ UNCHANGED budget
       \/ /\ Fault
          /\ source' = source
          /\ \E key \in TwinKeys : h' = [h EXCEPT !.twin.down = {key}]
       \/ /\ Fault
          /\ source = Schedule0 /\ source' = Schedule1
          /\ h' = [h EXCEPT !.twin.down = {}]
    /\ UNCHANGED <<live, bills, bill_alerts, sent_alerts, cache, tick, digest, sched>>

InitTwin ==
    /\ now \in {[jdn |-> Day0, min |-> m] : m \in Starts}
    /\ source = Schedule0
    /\ bills = << [chat_id |-> 1, name |-> "home", bill_id |-> "A"],
                  [chat_id |-> 1, name |-> "office", bill_id |-> "B"] >>
    /\ bill_alerts = [k \in {<<1, "A">>, <<1, "B">>} |->
                         IF k[2] = "A" THEN AllOn ELSE Only10m]
    /\ sent_alerts = {}
    /\ cache = NoCache
    /\ now_cache = [k \in {} |-> 0]
    /\ query = QueryIdle
    /\ tick = TickIdle
    /\ digest = DigestIdle
    /\ sched = [tick |-> NoInstant, digest |-> 0, cleanup |-> 0]
    /\ h = [HistOf({}) EXCEPT !.twin = TwinInit]
    /\ budget = [faults |-> 0, ops |-> 0, adv |-> 0]

\* The jobs of the real scheduler step by step, each fetch answered by the
\* source and each send returning; the twin's jobs; the clock.
NextTwin ==
    \/ TickStart /\ UNCHANGED budget
    \/ /\ tick.pc = "await_fetch_today"
       /\ TickFetchedToday(Answer(source, h.twin.down, TickSub(tick).bill_id, tick.j_today))
       /\ UNCHANGED budget
    \/ /\ tick.pc = "await_fetch_tom"
       /\ TickFetchedTom(Answer(source, h.twin.down, TickSub(tick).bill_id, tick.j_tomorrow))
       /\ UNCHANGED budget
    \/ TickSendDone(TRUE) /\ UNCHANGED budget
    \/ DigestStart /\ UNCHANGED budget
    \/ /\ digest.pc = "await_fetch"
       /\ DigestFetched(Answer(source, h.twin.down, DigestSub(digest).bill_id,
                               digest.j_today))
       /\ UNCHANGED budget
    \/ DigestSendDone(TRUE) /\ UNCHANGED budget
    \/ TwinTick
    \/ TwinDigest
    \/ TwinAdvance

SpecTwin == InitTwin /\ [][NextTwin]_vars

-----------------------------------------------------------------------------
(* The two caches, the live-outage query and the deletion (C12 to C15) *)

\* The clock is read to the second.  The process starts at 13:00:00 and the
\* tick fires on the minute; the user of chat 1 asks for the outages now
\* under way for subject A, deletes A and registers it again, one request at
\* a time (the application handles an update after the one before).
MaxLiveAdvance == 3

\* The seconds the clock moves on by: to either side of the TTLs.
LiveSteps == {1, NOW_CACHE_TTL_SECONDS, CACHE_TTL_SECONDS}

LiveAdvance(d) ==
    /\ tick.pc = "idle" /\ query.pc = "idle"
    /\ budget.adv < MaxLiveAdvance /\ budget' = [budget EXCEPT !.adv = @ + 1]
    /\ LET total == now.min * 60 + now.sec + d
       IN  now' = [jdn |-> now.jdn, min |-> total \div 60, sec |-> total % 60]
    /\ UNCHANGED <<source, bills, bill_alerts, sent_alerts, cache, now_cache, query, tick,
                   digest, sched, h>>

InitLive ==
    /\ now = [jdn |-> Day0, min |-> 780, sec |-> 0]
    /\ source = Schedule0
    /\ bills = << [chat_id |-> 1, name |-> "home", bill_id |-> "A"],
                  [chat_id |-> 1, name |-> "office", bill_id |-> "B"] >>
    /\ bill_alerts = [k \in {<<1, "A">>, <<1, "B">>} |->
                         IF k[2] = "A" THEN AllOn ELSE Only10m]
    /\ sent_alerts = {}
    /\ cache = NoCache
    /\ now_cache = [k \in {} |-> 0]
    /\ query = QueryIdle
    /\ tick = TickIdle
    /\ digest = DigestIdle
    /\ sched = [tick |-> NoInstant, digest |-> 0, cleanup |-> 0]
    /\ h = HistOf({})
    /\ budget = [faults |-> 0, ops |-> 0, adv |-> 0]

\* A live answer the environment may give: a list under "data", or a fault.
MayAnswer(r) == IF r.kind = "dict" THEN UNCHANGED budget ELSE Fault

NextLive ==
    \/ now.sec = 0 /\ TickStart /\ UNCHANGED budget
    \/ /\ tick.pc = "await_fetch_today"
       /\ \E r \in Responses(source, TickSub(tick).bill_id, tick.j_today, tick.j_today) :
             Nominal(r) /\ TickFetchedToday(r) /\ UNCHANGED budget
    \/ /\ tick.pc = "await_fetch_tom"
       /\ \E r \in Responses(source, TickSub(tick).bill_id, tick.j_tomorrow, tick.j_tomorrow) :
             Nominal(r) /\ TickFetchedTom(r) /\ UNCHANGED budget
    \/ TickSendDone(TRUE) /\ UNCHANGED budget
    \/ QueryStart("A") /\ UserOp
    \/ /\ query.pc = "await_live"
       /\ \E r \in LiveResponses(source, query.bill_id) : QueryLiveFetched(r) /\ MayAnswer(r)
    \/ /\ query.pc = "await_today"
       /\ \E r \in Responses(source, query.bill_id, query.j_today, query.j_today) :
             QueryTodayFetched(r) /\ MayRespond(r)
    \/ /\ query.pc = "await_yesterday"
       /\ \E r \in Responses(source, query.bill_id, query.j_yesterday, query.j_yesterday) :
             QueryYesterdayFetched(r) /\ MayRespond(r)
    \/ query.pc = "idle" /\ Owned(bills, 1, "A") /\ DeleteBill(1, "A") /\ UserOp
    \/ query.pc = "idle" /\ ~Owned(bills, 1, "A") /\ Register(1, "home", "A") /\ UserOp
    \/ \E d \in LiveSteps : LiveAdvance(d)

SpecLive == InitLive /\ [][NextLive]_vars

\* The age of an entry of either cache, in seconds.
Age(entry) == Timestamp(now) - entry.ts

\* The user has asked for the outages now under way, in this step.
Asked == query.pc = "idle" /\ query' # query /\ query'.bill_id # ""

\* alerts_tick has started, in this step, with subscriptions to go through.
Ticked == tick.pc = "idle" /\ sched'.tick # sched.tick /\ ListActive(bills, bill_alerts) # <<>>

\* C12: an entry of either cache is served with the records stored, to the
\* lookups made up to TTL seconds after it was set (3600 for the schedule
\* cache, 45 for the live cache) and not deleted since; a later lookup gets
\* nothing.  So the live query asks the live endpoint exactly when the entry
\* is missing or older than that (or holds nothing), and the tick fetches
\* the day's schedule of its first subscription exactly when the entry is.
C12_ServedWithinTTL ==
    /\ [](\A key \in DOMAIN cache :
            CacheGet(cache, key[1], key[2], now)
               = IF Age(cache[key]) <= 3600
                 THEN [hit |-> TRUE, items |-> cache[key].items]
                 ELSE [hit |-> FALSE, items |-> <<>>])
    /\ [](\A b \in DOMAIN now_cache :
            NowCacheGet(now_cache, b, now)
               = IF Age(now_cache[b]) <= 45 THEN now_cache[b].items ELSE PyNone)
    /\ [][Asked =>
            LET b == query'.bill_id
                fresh == b \in DOMAIN now_cache /\ Age(now_cache[b]) <= 45
            IN  /\ query'.had = IF fresh THEN now_cache[b].items ELSE PyNone
                /\ query'.pc = "await_live" <=> query'.had = PyNone]_vars
    /\ [][Ticked =>
            LET b == ListActive(bills, bill_alerts)[1]
                key == <<b.bill_id, JalaliToday(now)>>
                fresh == key \in DOMAIN cache /\ Age(cache[key]) <= 3600
            IN  b.a1h = 1 \/ b.a10m = 1 =>
                  (tick'.pc = "await_fetch_today" /\ tick'.i = 1 <=> ~fresh)]_vars

\* At 14:00:00 the tick has been served A's rows of 13:00:00, then 3600 s
\* old, and the query, finding the live entry of 13:00:00, has asked the live
\* endpoint again.
C12_Witness ==
    /\ now = [jdn |-> Day0, min |-> 840, sec |-> 0]
    /\ sched.tick = now /\ tick.pc = "idle"
    /\ <<"A", Date0>> \in DOMAIN cache /\ Age(cache[<<"A", Date0>>]) = 3600
    /\ query.pc = "idle" /\ query.bill_id = "A" /\ query.had = PyNone /\ query.called
    /\ "A" \in DOMAIN now_cache /\ Age(now_cache["A"]) = 0

\* C13 as stated: once a tick has run to its end, no entry of the schedule
\* cache is older than 7200 s and no entry of the live cache older than 90 s.
C13_NoStaleAfterTick ==
    tick.pc = "idle" /\ sched.tick = now =>
       /\ \A key \in DOMAIN cache : Age(cache[key]) <= 2 * 3600
       /\ \A b \in DOMAIN now_cache : Age(now_cache[b]) <= 2 * 45

\* C14: when delete_bill_and_related(chat_id, bill_id) has found the bill and
\* returned True, no row of bills, bill_alerts or sent_alerts is left for
\* (chat_id, bill_id), and no entry of either cache for bill_id.
C14_DeleteCascades ==
    [][\A chat_id \in {1}, bill_id \in {"A", "B"} :
          Owned(bills, chat_id, bill_id) /\ ~Owned(bills', chat_id, bill_id) =>
             /\ <<chat_id, bill_id>> \notin DOMAIN bill_alerts'
             /\ \A r \in sent_alerts' : ~(r[1] = chat_id /\ r[2] = bill_id)
             /\ \A key \in DOMAIN cache' : key[1] # bill_id
             /\ bill_id \notin DOMAIN now_cache']_vars

\* A has been deleted after its one-hour alert was sent, the tick had cached
\* the schedules and the live query had cached a live answer for it.
C14_Witness ==
    /\ ~Owned(bills, 1, "A") /\ <<1, "A">> \notin DOMAIN bill_alerts
    /\ Count(h.removed, RowA1h) = 1 /\ RowA1h \notin sent_alerts
    /\ <<"B", Date0>> \in DOMAIN cache /\ <<"A", Date0>> \notin DOMAIN cache
    /\ query.pc = "idle" /\ query.bill_id = "A" /\ query.called
    /\ query.shown # <<>> /\ query.shown[1] = "live"
    /\ "A" \notin DOMAIN now_cache

\* The query has come to its end.
Answered == query.pc = "idle" /\ query.bill_id # ""

\* C15 as stated: when the live call has returned a list, that list is the
\* answer shown and is cached, and no schedule is fetched; and the fallback
\* to the schedules is entered only after the live call was made and failed,
\* the live cache holding no unexpired entry for the subject.
C15_LiveIsAuthoritative ==
    /\ Answered /\ query.called /\ query.resp_live.kind = "dict" =>
          /\ query.shown = <<"live", query.resp_live.data>>
          /\ query.fetched = 0
    /\ query.pc \in {"await_today", "await_yesterday"} \/ query.fetched > 0 =>
          /\ query.called /\ query.resp_live.kind # "dict"
          /\ query.had = PyNone

-----------------------------------------------------------------------------
(* The filter of the schedule fallback by itself (C16) *)

\* The rows the filter is given: dated yesterday, today or tomorrow, with a
\* start and a stop that are "HH:MM" texts, missing, or malformed.
FilterRows ==
    {Rec(d, start, stop, Nil, <<"north">>) :
        d \in {<<1404, 6, 30>>, Date0, Date1},
        start \in {<<8, 0>>, <<23, 30>>, <<7>>, Nil},
        stop \in {<<10, 0>>, <<0, 30>>, <<8, 0>>, Nil}}

\* The minutes of the day the filter is applied at.
FilterMinutes == {0, 10, 30, 479, 480, 540, 599, 600, 1409, 1410, 1439}

\* The query in its fallback, the live call having failed and today's
\* schedule fetched: one row, of any date.
InitFilter ==
    /\ now \in {[jdn |-> Day0, min |-> m] : m \in FilterMinutes}
    /\ source = Schedule0
    /\ bills = <<[chat_id |-> 1, name |-> "home", bill_id |-> "A"]>>
    /\ bill_alerts = [k \in {<<1, "A">>} |-> NoAlerts]
    /\ sent_alerts = {}
    /\ cache = NoCache
    /\ now_cache = [k \in {} |-> 0]
    /\ \E row \in FilterRows :
          query = [QueryIdle EXCEPT
                     !.pc = "await_yesterday", !.bill_id = "A",
                     !.j_today = JalaliToday(now), !.j_yesterday = JalaliYesterday(now),
                     !.called = TRUE,
                     !.resp_live = [kind |-> "none", data |-> <<>>, err |-> "Network error"],
                     !.resp_t = [kind |-> "dict", data |-> <<row>>, err |-> ""],
                     !.fetched = 1]
    /\ tick = TickIdle
    /\ digest = DigestIdle
    /\ sched = [tick |-> now, digest |-> 0, cleanup |-> 0]
    /\ h = HistOf({})
    /\ budget = [faults |-> 0, ops |-> 0, adv |-> 0]

\* Yesterday's schedule arrives, one row of any date, and the filter runs.
NextFilter ==
    \E row \in FilterRows :
        QueryYesterdayFetched([kind |-> "dict", data |-> <<row>>, err |-> ""])
           /\ UNCHANGED budget

SpecFilter == InitFilter /\ [][NextFilter]_vars

\* The minute of the day of an "HH:MM" text that parses.
Parses(hm) == Len(hm) = 2
MinuteOf(hm) == hm[1] * 60 + hm[2]

\* What C16 says of a row: its times parse and it is now under way.
UnderWay(it, now_m, j_today, j_yesterday) ==
    /\ Parses(StartHm(it)) /\ Parses(StopHm(it))
    /\ LET start == MinuteOf(StartHm(it))
           stop  == MinuteOf(StopHm(it))
       IN  \/ ItemDate(it) = j_today /\ stop >= start /\ start <= now_m /\ now_m < stop
           \/ ItemDate(it) = j_today /\ stop < start /\ now_m >= start
           \/ ItemDate(it) = j_yesterday /\ stop < start /\ now_m < stop

\* C16: filter_current_outages_cross_day returns, in the order given, exactly
\* the rows whose times parse and that are dated today with stop >= start
\* and start <= now < stop, or today with stop < start and now >= start, or
\* yesterday with stop < start and now < stop.
C16_CurrentOutages ==
    query.pc = "idle" =>
       /\ query.shown[1] = "fallback"
       /\ query.shown[2] = SelectSeq(query.raw, LAMBDA it :
                              UnderWay(it, MinuteOf(query.now_hm), query.j_today,
                                       query.j_yesterday))

\* At 00:10 yesterday's row 23:30-00:30 is under way and today's 08:00-10:00
\* is not.
C16_Witness ==
    /\ query.pc = "idle" /\ query.now_hm = <<0, 10>>
    /\ query.raw = << Rec(<<1404, 6, 30>>, <<23, 30>>, <<0, 30>>, Nil, <<"north">>),
                      Rec(Date0, <<8, 0>>, <<10, 0>>, Nil, <<"north">>) >>
    /\ query.shown = <<"fallback",
                       <<Rec(<<1404, 6, 30>>, <<23, 30>>, <<0, 30>>, Nil, <<"north">>)>> >>

-----------------------------------------------------------------------------
(* Rows without a start (C17) *)

\* Rows whose start is missing (no outage_start_time and no outage_time) or
\* is no "HH:MM" text, for either day.
NoStart(date, number) == Rec(date, Nil, <<16, 0>>, number, <<"east">>)
OddStart(date, number) == Rec(date, <<14>>, <<16, 0>>, number, <<"east">>)
OddTime(date, number) ==
    [Rec(date, Nil, <<16, 0>>, number, <<"east">>) EXCEPT !.outage_time = <<0, 5, 0>>]

\* The schedule with such rows before, between and after the others.
ScheduleOdd ==
    [b \in {"A", "B"} |->
        IF b = "A"
        THEN << NoStart(Date0, <<61>>), Schedule0["A"][1], OddStart(Date0, Nil),
                OddTime(Date1, <<62>>), Schedule0["A"][2], NoStart(Date1, Nil) >>
        ELSE << OddStart(Date0, <<63>>), Schedule0["B"][1], OddTime(Date0, Nil),
                NoStart(Date1, Nil), Schedule0["B"][2] >>]

\* The schedule without the rows whose start does not parse.
WithStart(src) == [b \in DOMAIN src |-> SelectSeq(src[b], LAMBDA it : HasStart(it))]

\* The ledger identities of the rows whose start does not parse.
OddUniqs == {Uniq(source[b][n]) : b \in {"A"}, n \in {1, 3, 4, 6}}
               \cup {Uniq(source[b][n]) : b \in {"B"}, n \in {1, 3, 4}}

InitOdd ==
    /\ now \in {[jdn |-> Day0, min |-> m] : m \in Starts}
    /\ source = ScheduleOdd
    /\ bills = << [chat_id |-> 1, name |-> "home", bill_id |-> "A"],
                  [chat_id |-> 1, name |-> "office", bill_id |-> "B"] >>
    /\ bill_alerts = [k \in {<<1, "A">>, <<1, "B">>} |->
                         IF k[2] = "A" THEN AllOn ELSE Only10m]
    /\ sent_alerts = {}
    /\ cache = NoCache
    /\ now_cache = [k \in {} |-> 0]
    /\ query = QueryIdle
    /\ tick = TickIdle
    /\ digest = DigestIdle
    /\ sched = [tick |-> NoInstant, digest |-> 0, cleanup |-> 0]
    /\ h = [HistOf({}) EXCEPT !.twin = TwinInit]
    /\ budget = [faults |-> 0, ops |-> 0, adv |-> 0]

\* The tick of this minute has run to its end, over the schedule and over
\* the schedule without those rows.
OddQuiet == tick.pc = "idle" /\ sched.tick = now /\ h.twin.tick_at = now

\* The ticks of the scheduler, every fetch answered and every send
\* returning, next to the ticks over the schedule without those rows.
NextOdd ==
    \/ TickStart /\ UNCHANGED budget
    \/ /\ tick.pc = "await_fetch_today"
       /\ TickFetchedToday(Answer(source, {}, TickSub(tick).bill_id, tick.j_today))
       /\ UNCHANGED budget
    \/ /\ tick.pc = "await_fetch_tom"
       /\ TickFetchedTom(Answer(source, {}, TickSub(tick).bill_id, tick.j_tomorrow))
       /\ UNCHANGED budget
    \/ TickSendDone(TRUE) /\ UNCHANGED budget
    \/ TwinTickOn(WithStart(source))
    \/ OddQuiet /\ Advance(Minutes, LastDay) /\ UNCHANGED budget

SpecOdd == InitOdd /\ [][NextOdd]_vars

\* C17: a row whose start is missing or malformed gets no notification and
\* no ledger row, and the notifications sent and the ledger rows made for
\* the other rows are those of the ticks over the schedule without it.
C17_NoStartNoAlert ==
    /\ \A row \in sent_alerts \cup DOMAIN h.sent : row[5] \notin OddUniqs
    /\ OddQuiet => h.sent = h.twin.h.sent /\ sent_alerts = h.twin.sent_alerts

\* The ticks of 13:00 and 13:01 have gone through the rows of A and B, the
\* rows without a start among them, and sent A's one-hour and B's
\* ten-minute alert.
C17_Witness ==
    /\ OddQuiet /\ now = [jdn |-> Day0, min |-> 781]
    /\ source = ScheduleOdd
    /\ Len(cache[<<"A", Date0>>].items) = 3 /\ Len(cache[<<"B", Date0>>].items) = 3
    /\ sent_alerts = {RowA1h, RowB10m} /\ DOMAIN h.sent = {RowA1h, RowB10m}

-----------------------------------------------------------------------------
(* The retention sweep through a winter (C18) *)

\* The civil (official solar-Hijri) date of a day: the days since Nowruz,
\* counted through six months of 31 days and then months of 30.
CivilOf(jdn) ==
    LET d  == DateOfJdn(jdn)
        jy == d[1] - 621
        k  == jdn - G2D(d[1], 3, JalCal(jy).march)
    IN  IF k >= 0
        THEN IF k <= 185
             THEN <<jy, 1 + (k \div 31), 1 + (k % 31)>>
             ELSE <<jy, 7 + ((k - 186) \div 30), 1 + ((k - 186) % 30)>>
        ELSE LET k2 == jdn - G2D(d[1] - 1, 3, JalCal(jy - 1).march) - 186
             IN  <<jy - 1, 7 + (k2 \div 30), 1 + (k2 % 30)>>

\* The days watched: the last two days of December and the first of
\* January, the days thirty days after them, the eve and the day of Nowruz
\* 1404, and the days thirty days after those.
SweepDays ==
    << G2D(2024, 12, 30), G2D(2024, 12, 31), G2D(2025, 1, 1),
       G2D(2025, 1, 29), G2D(2025, 1, 30), G2D(2025, 1, 31),
       G2D(2025, 3, 20), G2D(2025, 3, 21),
       G2D(2025, 4, 19), G2D(2025, 4, 20), G2D(2025, 4, 21) >>

\* What the source holds on a day: one outage of subject A at 14:00, dated
\* with the civil date of the day.
SweepSource(jdn) ==
    [b \in {"A", "B"} |->
        IF b = "A"
        THEN <<Rec(CivilOf(jdn), <<14, 0>>, <<16, 0>>, <<7>>, <<"north">>)>>
        ELSE <<>>]

InitSweep ==
    /\ now = [jdn |-> SweepDays[1], min |-> CLEANUP_MINUTE]
    /\ source = SweepSource(SweepDays[1])
    /\ bills = << [chat_id |-> 1, name |-> "home", bill_id |-> "A"] >>
    /\ bill_alerts = [k \in {<<1, "A">>} |-> AllOn]
    /\ sent_alerts = {}
    /\ cache = [k \in {} |-> 0]
    /\ now_cache = [k \in {} |-> 0]
    /\ query = QueryIdle
    /\ tick = TickIdle
    /\ digest = DigestIdle
    /\ sched = [tick |-> NoInstant, digest |-> 0, cleanup |-> 0]
    /\ h = HistOf({})
    /\ budget = [faults |-> 0, ops |-> 0, adv |-> 0]

\* The clock moves from 03:00 to 13:00, or to 03:00 or 13:00 of the next
\* day watched (the process is up at some of these instants only).
SweepAdvance ==
    /\ tick.pc = "idle"
    /\ \E n \in 1..Len(SweepDays), m \in {CLEANUP_MINUTE, 780} :
          /\ \/ SweepDays[n] = now.jdn /\ m > now.min
             \/ n > 1 /\ SweepDays[n - 1] = now.jdn
          /\ now' = [jdn |-> SweepDays[n], min |-> m]
          /\ source' = SweepSource(SweepDays[n])
    /\ UNCHANGED <<live, bills, bill_alerts, sent_alerts, cache, tick, digest, sched, h,
                   budget>>

\* The sweep of 03:00 and the tick of 13:00, every fetch answered and every
\* send returning.
NextSweep ==
    \/ Cleanup /\ UNCHANGED budget
    \/ TickStart /\ UNCHANGED budget
    \/ /\ tick.pc = "await_fetch_today"
       /\ TickFetchedToday(Answer(source, {}, TickSub(tick).bill_id, tick.j_today))
       /\ UNCHANGED budget
    \/ /\ tick.pc = "await_fetch_tom"
       /\ TickFetchedTom(Answer(source, {}, TickSub(tick).bill_id, tick.j_tomorrow))
       /\ UNCHANGED budget
    \/ TickSendDone(TRUE) /\ UNCHANGED budget
    \/ SweepAdvance

SpecSweep == InitSweep /\ [][NextSweep]_vars

\* C18: the sweep removes exactly the ledger rows dated before the civil
\* date of the day thirty days ago, hence no row dated today or tomorrow.
C18_SweepExact ==
    [][sched'.cleanup # sched.cleanup =>
          /\ sent_alerts' =
                {r \in sent_alerts :
                    ~JLess(r[4], CivilOf(now.jdn - SENT_ALERTS_RETENTION_DAYS))}
          /\ \A r \in sent_alerts :
                r[4] \in {CivilOf(now.jdn), CivilOf(now.jdn + 1)} => r \in sent_alerts']_vars

\* The sweep of 30 January has run: the alert of 30 December was sent and
\* its row is gone, the row of 31 December is kept.
C18_Witness ==
    /\ now = [jdn |-> G2D(2025, 1, 30), min |-> CLEANUP_MINUTE]
    /\ sched.cleanup = now.jdn
    /\ sent_alerts = {SentRow(1, "A", "1h", <<1403, 10, 11>>, <<"id", <<7>>>>)}
    /\ DOMAIN h.sent = {SentRow(1, "A", "1h", <<1403, 10, 10>>, <<"id", <<7>>>>),
                        SentRow(1, "A", "1h", <<1403, 10, 11>>, <<"id", <<7>>>>)}

-----------------------------------------------------------------------------
(* The alert switches (C19) *)

\* Two chats and two subjects; chat 1 holds both subjects, chat 2 holds A.
\* The flags are any of three settings.
InitToggle ==
    /\ now = [jdn |-> Day0, min |-> 1]
    /\ source = Schedule0
    /\ bills = << [chat_id |-> 1, name |-> "home", bill_id |-> "A"],
                  [chat_id |-> 1, name |-> "office", bill_id |-> "B"],
                  [chat_id |-> 2, name |-> "home", bill_id |-> "A"] >>
    /\ bill_alerts \in [{<<1, "A">>, <<1, "B">>, <<2, "A">>} -> {AllOn, Only10m, NoAlerts}]
    /\ sent_alerts = {}
    /\ cache = [k \in {} |-> 0]
    /\ now_cache = [k \in {} |-> 0]
    /\ query = QueryIdle
    /\ tick = TickIdle
    /\ digest = DigestIdle
    /\ sched = [tick |-> NoInstant, digest |-> 0, cleanup |-> 0]
    /\ h = HistOf({})
    /\ budget = [faults |-> 0, ops |-> 0, adv |-> 0]

\* The buttons of either chat (a keyboard outlives the subscription it was
\* drawn for), and chat 1 dropping and registering subject A.
NextToggle ==
    \/ \E chat_id \in {1, 2}, bill_id \in {"A", "B"}, key \in {"a1h", "a10m", "a1201"} :
          Toggle(chat_id, bill_id, key) /\ UNCHANGED budget
    \/ Owned(bills, 1, "A") /\ DeleteBill(1, "A") /\ UNCHANGED budget
    \/ ~Owned(bills, 1, "A") /\ Register(1, "home", "A") /\ UNCHANGED budget

SpecToggle == InitToggle /\ [][NextToggle]_vars

\* The flags of every chat and subject, as get_alerts reads them.
Flags(alerts) == [c \in {1, 2}, b \in {"A", "B"} |-> GetAlerts(alerts, c, b)]

\* C19: a toggle flips the flag of its kind between 0 and 1 and leaves
\* every other flag as it was, and the same toggle once more gives the
\* flags there were before the first.
C19_ToggleFlipsOne ==
    [][\A chat_id \in {1, 2}, bill_id \in {"A", "B"}, key \in {"a1h", "a10m", "a1201"} :
          Toggle(chat_id, bill_id, key) =>
             /\ Flags(bill_alerts') =
                   [Flags(bill_alerts) EXCEPT ![chat_id, bill_id][key] = 1 - @]
             /\ Flags(bill_alerts)[chat_id, bill_id][key] \in {0, 1}
             /\ LET cur == GetAlerts(bill_alerts', chat_id, bill_id)[key]
                    again == SetAlert(bill_alerts', chat_id, bill_id, key,
                                      IF cur # 0 THEN 0 ELSE 1)
                IN  /\ Flags(again) = Flags(bill_alerts)
                    /\ ListActive(bills, again) = ListActive(bills, bill_alerts)]_vars

\* Chat 1 has switched the one-hour alert of subject B on, which no
\* subscription starts with alone, next to its own subject A with every
\* alert on and to chat 2 with none.
C19_Witness ==
    /\ Len(bills) = 3
    /\ bill_alerts = [k \in {<<1, "A">>, <<1, "B">>, <<2, "A">>} |->
                         IF k = <<1, "A">> THEN AllOn
                         ELSE IF k = <<1, "B">> THEN [NoAlerts EXCEPT !.a1h = 1]
                         ELSE NoAlerts]

-----------------------------------------------------------------------------
(* The ledger identity of a row (C20) *)

\* Rows of today that start at 14:00 or 14:01, the start under either of
\* its two keys, with and without a native id, at one of two addresses.
IdentRows ==
    {[Rec(Date0, start, <<16, 0>>, number, address) EXCEPT !.outage_time = time] :
        start \in {<<14, 0>>, Nil}, time \in {<<14, 0>>, <<14, 1>>},
        number \in {<<7>>, Nil}, address \in {<<"north">>, <<"south">>}}

\* Subject A has two different rows today; the process starts at 13:00.
InitIdent ==
    /\ now = [jdn |-> Day0, min |-> 780]
    /\ \E r1, r2 \in IdentRows :
          /\ r1 # r2
          /\ source = [b \in {"A", "B"} |-> IF b = "A" THEN <<r1, r2>> ELSE <<>>]
    /\ bills = << [chat_id |-> 1, name |-> "home", bill_id |-> "A"] >>
    /\ bill_alerts = [k \in {<<1, "A">>} |-> AllOn]
    /\ sent_alerts = {}
    /\ cache = [k \in {} |-> 0]
    /\ now_cache = [k \in {} |-> 0]
    /\ query = QueryIdle
    /\ tick = TickIdle
    /\ digest = DigestIdle
    /\ sched = [tick |-> NoInstant, digest |-> 0, cleanup |-> 0]
    /\ h = HistOf({})
    /\ budget = [faults |-> 0, ops |-> 0, adv |-> 0]

\* The ticks of 13:00 and 13:01, every fetch answered and every send
\* returning.
NextIdent ==
    \/ TickStart /\ UNCHANGED budget
    \/ /\ tick.pc = "await_fetch_today"
       /\ TickFetchedToday(Answer(source, {}, TickSub(tick).bill_id, tick.j_today))
       /\ UNCHANGED budget
    \/ /\ tick.pc = "await_fetch_tom"
       /\ TickFetchedTom(Answer(source, {}, TickSub(tick).bill_id, tick.j_tomorrow))
       /\ UNCHANGED budget
    \/ TickSendDone(TRUE) /\ UNCHANGED budget
    \/ /\ tick.pc = "idle" /\ sched.tick = now /\ now.min = 780
       /\ Advance({780, 781}, Day0) /\ UNCHANGED budget

SpecIdent == InitIdent /\ [][NextIdent]_vars

\* C20 as stated: the identity under which a row's alert is entered in the
\* ledger is its native id if it has one, and else is made of its date, the
\* start it was matched by, its stop and its address; two rows without a
\* native id that differ in that start or in the address have different
\* identities.
C20_IdentityOfRow ==
    /\ tick.pc = "await_send" =>
          LET it == tick.items[tick.k]
          IN  TickRow(tick)[5] =
                 IF Truthy(it.outage_number)
                 THEN <<"id", it.outage_number>>
                 ELSE <<"composite", ItemDate(it), StartHm(it), it.outage_stop_time,
                        it.outage_address>>
    /\ \A r1, r2 \in {source["A"][n] : n \in 1..Len(source["A"])} :
          /\ ~Truthy(r1.outage_number) /\ ~Truthy(r2.outage_number)
          /\ StartHm(r1) # StartHm(r2) \/ r1.outage_address # r2.outage_address
          => Uniq(r1) # Uniq(r2)

-----------------------------------------------------------------------------
(* The calendar through two years (C21) *)

\* The days watched: from the eve of Nowruz 1403 to after Nowruz 1405.
CalFirst == G2D(2024, 3, 19)
CalLast == G2D(2026, 3, 22)

\* One subscription and no outages; the tick of 23:55 of any of the days.
InitCal ==
    /\ now \in {[jdn |-> d, min |-> 1435] : d \in CalFirst..CalLast}
    /\ source = [b \in {"A", "B"} |-> <<>>]
    /\ bills = << [chat_id |-> 1, name |-> "home", bill_id |-> "A"] >>
    /\ bill_alerts = [k \in {<<1, "A">>} |-> AllOn]
    /\ sent_alerts = {}
    /\ cache = [k \in {} |-> 0]
    /\ now_cache = [k \in {} |-> 0]
    /\ query = QueryIdle
    /\ tick = TickIdle
    /\ digest = DigestIdle
    /\ sched = [tick |-> NoInstant, digest |-> 0, cleanup |-> 0]
    /\ h = HistOf({})
    /\ budget = [faults |-> 0, ops |-> 0, adv |-> 0]

\* The tick takes the dates of today and tomorrow and fetches with them.
NextCal ==
    \/ TickStart /\ UNCHANGED budget
    \/ /\ tick.pc = "await_fetch_today"
       /\ TickFetchedToday(Answer(source, {}, TickSub(tick).bill_id, tick.j_today))
       /\ UNCHANGED budget
    \/ /\ tick.pc = "await_fetch_tom"
       /\ TickFetchedTom(Answer(source, {}, TickSub(tick).bill_id, tick.j_tomorrow))
       /\ UNCHANGED budget

SpecCal == InitCal /\ [][NextCal]_vars

\* The length of month m of the solar-Hijri year; the twelfth has 29 or 30.
MonthDays(m) == IF m <= 6 THEN {31} ELSE IF m <= 11 THEN {30} ELSE {29, 30}

\* j is a date of the solar-Hijri calendar.
ValidJalali(j) ==
    /\ j[2] \in 1..12
    /\ \E n \in MonthDays(j[2]) : j[3] \in 1..n

\* b is the date after a: the next day of the month, the first of the next
\* month after the last day of a month, or the first of the next year.
JalaliSuccessor(a, b) ==
    \/ b = <<a[1], a[2], a[3] + 1>> /\ ValidJalali(b)
    \/ b = <<a[1], a[2] + 1, 1>> /\ a[2] < 12 /\ a[3] \in MonthDays(a[2])
    \/ b = <<a[1] + 1, 1, 1>> /\ a[2] = 12 /\ a[3] \in MonthDays(12)

\* C21 as stated: the dates the tick takes for today and tomorrow are dates
\* of the calendar, tomorrow's is the successor of today's, and their texts
\* are in that order.
C21_CalendarExact ==
    tick.pc = "await_fetch_today" =>
       /\ ValidJalali(tick.j_today) /\ ValidJalali(tick.j_tomorrow)
       /\ JalaliSuccessor(tick.j_today, tick.j_tomorrow)
       /\ JLess(tick.j_today, tick.j_tomorrow)

-----------------------------------------------------------------------------
(* The readings of the clock at the head of a tick (C23) *)

\* The minute after the instant t.
MinuteAfter(t) ==
    IF t.min < 24 * 60 - 1 THEN [t EXCEPT !.min = @ + 1]
    ELSE [jdn |-> t.jdn + 1, min |-> 0]

\* The process starts in any minute of the day.
InitClock ==
    /\ now \in {[jdn |-> Day0, min |-> m] : m \in 0..(24 * 60 - 1)}
    /\ source = Schedule0
    /\ bills = << [chat_id |-> 1, name |-> "home", bill_id |-> "A"] >>
    /\ bill_alerts = [k \in {<<1, "A">>} |-> AllOn]
    /\ sent_alerts = {}
    /\ cache = [k \in {} |-> 0]
    /\ now_cache = [k \in {} |-> 0]
    /\ query = QueryIdle
    /\ tick = TickIdle
    /\ digest = DigestIdle
    /\ sched = [tick |-> NoInstant, digest |-> 0, cleanup |-> 0]
    /\ h = HistOf({})
    /\ budget = [faults |-> 0, ops |-> 0, adv |-> 0]

\* The first alerts_tick of the process from its start to its first await,
\* the clock running on while it reads it: the minute may end before either
\* of the later readings.
TickStartAcross ==
    /\ tick.pc = "idle"
    /\ sched.tick = NoInstant
    /\ sched' = [sched EXCEPT !.tick = now]
    /\ \E n_today \in {now, MinuteAfter(now)} :
          \E n_tomorrow \in {n_today, MinuteAfter(now)} :
             /\ now' = n_tomorrow
             /\ LET active == ListActive(bills, bill_alerts)
                IN  TickResume([TickConf EXCEPT
                                   !.tick = TickBeginAt(active, now, n_today, n_tomorrow)])
    /\ UNCHANGED <<live, source, bills, bill_alerts, digest, budget>>

NextClock ==
    \/ TickStartAcross
    \/ /\ tick.pc = "await_fetch_today"
       /\ TickFetchedToday(Answer(source, {}, TickSub(tick).bill_id, tick.j_today))
       /\ UNCHANGED budget
    \/ /\ tick.pc = "await_fetch_tom"
       /\ TickFetchedTom(Answer(source, {}, TickSub(tick).bill_id, tick.j_tomorrow))
       /\ UNCHANGED budget
    \/ TickSendDone(TRUE) /\ UNCHANGED budget

SpecClock == InitClock /\ [][NextClock]_vars

\* C23 as stated: the minute of the day and the dates of today and tomorrow
\* that a run works with are those of one instant.
C23_OneInstant ==
    tick.pc # "idle" =>
       \E n \in {sched.tick, MinuteAfter(sched.tick)} :
          /\ tick.now_m = NowMinutes(n)
          /\ tick.j_today = JalaliToday(n)
          /\ tick.j_tomorrow = JalaliTomorrow(n)

-----------------------------------------------------------------------------
(* What the schedule cache holds (C24) *)

\* The key of the fetch a job is waiting for, in a one-element set.
TickAwaited ==
    IF tick.pc = "await_fetch_today" THEN {<<TickSub(tick).bill_id, tick.j_today>>}
    ELSE IF tick.pc = "await_fetch_tom" THEN {<<TickSub(tick).bill_id, tick.j_tomorrow>>}
    ELSE {}
DigestAwaited ==
    IF digest.pc = "await_fetch" THEN {<<DigestSub(digest).bill_id, digest.j_today>>} ELSE {}

\* C24 as stated: an entry of the schedule cache holds the rows dated with
\* its date of an answer the source gives for its subject and date, and the
\* step in which a fetch fails neither makes nor replaces the entry of its
\* key.
C24_CacheHoldsFetched ==
    /\ [](\A key \in DOMAIN cache :
            \E r \in Responses(source, key[1], key[2], key[2]) :
               /\ ~FetchFailed(r) /\ ~RespFalsy(r) /\ ~RawRaises(r)
               /\ cache[key].items = OnlyDate(RawOf(r), key[2]))
    /\ [][\A key \in TickAwaited :
             tick' # tick /\ key \in h'.fetch_failed /\ key \in DOMAIN cache'
                => key \in DOMAIN cache /\ cache'[key] = cache[key]]_vars
    /\ [][\A key \in DigestAwaited :
             digest' # digest /\ key \in h'.fetch_failed /\ key \in DOMAIN cache'
                => key \in DOMAIN cache /\ cache'[key] = cache[key]]_vars

-----------------------------------------------------------------------------
(* Sends next to the buttons (C25) *)

\* The subscription is there and its flag key is on.
Enabled(chat_id, bill_id, key) ==
    /\ Owned(bills, chat_id, bill_id)
    /\ GetAlerts(bill_alerts, chat_id, bill_id)[key] = 1

\* C25 as stated: when a job calls send_message for a subscription, the
\* subscription exists and the kind of the notification is enabled for it.
C25_SentOnlyIfEnabled ==
    /\ [][tick'.pc = "await_send" /\ tick' # tick =>
             Enabled(TickSub(tick').chat_id, TickSub(tick').bill_id,
                     IF tick'.stage = "1h" THEN "a1h" ELSE "a10m")]_vars
    /\ [][digest'.pc = "await_send" /\ digest' # digest =>
             Enabled(DigestSub(digest').chat_id, DigestSub(digest').bill_id, "a1201")]_vars

-----------------------------------------------------------------------------
(* After a deletion (C26) *)

\* C26 as stated: while a subject that chat 1 has deleted is not registered
\* again, the ledger holds no row of it and the schedule cache no entry of
\* it.  (Chat 1 holds both subjects from the start, and no other chat holds
\* one.)
C26_NothingAfterDelete ==
    \A bill_id \in {"A", "B"} :
       ~Owned(bills, 1, bill_id) =>
          /\ \A row \in sent_alerts : ~(row[1] = 1 /\ row[2] = bill_id)
          /\ \A key \in DOMAIN cache : key[1] # bill_id

-----------------------------------------------------------------------------
(* The window across midnight (C27) *)

\* The start minutes of tomorrow's one outage: around both leads.
WindowStarts == {0, 8, 9, 10, 11, 58, 59, 60, 61}

\* The minutes watched: every minute from 22:59 today to 01:05 tomorrow.
WindowFirst == [jdn |-> Day0, min |-> 22 * 60 + 59]
WindowLast == [jdn |-> Day0 + 1, min |-> 65]

\* Subject A has one outage tomorrow, at minute s.
InitWindow ==
    \E s \in WindowStarts :
        /\ now = WindowFirst
        /\ source = [b \in {"A", "B"} |->
                        IF b = "A"
                        THEN <<Rec(Date1, <<s \div 60, s % 60>>, <<23, 59>>, Nil, <<"north">>)>>
                        ELSE <<>>]
        /\ bills = << [chat_id |-> 1, name |-> "home", bill_id |-> "A"] >>
        /\ bill_alerts = [k \in {<<1, "A">>} |-> AllOn]
        /\ sent_alerts = {}
        /\ cache = [k \in {} |-> 0]
        /\ now_cache = [k \in {} |-> 0]
        /\ query = QueryIdle
        /\ tick = TickIdle
        /\ digest = DigestIdle
        /\ sched = [tick |-> NoInstant, digest |-> 0, cleanup |-> 0]
        /\ h = HistOf({})
        /\ budget = [faults |-> 0, ops |-> 0, adv |-> 0]

\* The tick of this minute has run, and the next minute begins.
WindowMinute ==
    /\ tick.pc = "idle" /\ sched.tick = now
    /\ now # WindowLast
    /\ now' = MinuteAfter(now)
    /\ UNCHANGED <<live, source, bills, bill_alerts, sent_alerts, cache, tick, digest, sched, h,
                   budget>>

\* Ticks once a minute; every fetch and every send succeeds.
NextWindow ==
    \/ TickStart /\ UNCHANGED budget
    \/ /\ tick.pc = "await_fetch_today"
       /\ TickFetchedToday(Answer(source, {}, TickSub(tick).bill_id, tick.j_today))
       /\ UNCHANGED budget
    \/ /\ tick.pc = "await_fetch_tom"
       /\ TickFetchedTom(Answer(source, {}, TickSub(tick).bill_id, tick.j_tomorrow))
       /\ UNCHANGED budget
    \/ TickSendDone(TRUE) /\ UNCHANGED budget
    \/ WindowMinute

SpecWindow == InitWindow /\ [][NextWindow]_vars

\* The ledger row of the outage's alert of a kind.
WindowRow(kind) == SentRow(1, "A", kind, Date1, Uniq(source["A"][1]))

\* C27 as stated: by the end of the watch the outage has been due for each
\* kind at exactly two ticks (the first enters its row in the ledger, the
\* second finds it there).
C27_DueAtTwoTicks ==
    now = WindowLast /\ tick.pc = "idle" /\ sched.tick = now =>
       \A kind \in {"1h", "10m"} : Count(h.calls, WindowRow(kind)) = 2

-----------------------------------------------------------------------------
(* Fetches per cache key (C28) *)

\* C28 as stated: the two jobs never wait for a fetch of the same key at the
\* same time, and a job starts a fetch for a key only when the cache holds
\* no unexpired entry for it.
C28_OneFetchPerKey ==
    /\ [](TickAwaited \cap DigestAwaited = {})
    /\ [][tick' # tick =>
             \A key \in TickAwaited' : ~CacheGet(cache', key[1], key[2], now).hit]_vars
    /\ [][digest' # digest =>
             \A key \in DigestAwaited' : ~CacheGet(cache', key[1], key[2], now).hit]_vars

-----------------------------------------------------------------------------
(* mark_sent while the store fails (C29) *)

InitStore ==
    /\ now \in {[jdn |-> Day0, min |-> m] : m \in Starts}
    /\ source = Schedule0
    /\ bills = << [chat_id |-> 1, name |-> "home", bill_id |-> "A"],
                  [chat_id |-> 1, name |-> "office", bill_id |-> "B"] >>
    /\ bill_alerts = [k \in {<<1, "A">>, <<1, "B">>} |->
                         IF k[2] = "A" THEN AllOn ELSE Only10m]
    /\ sent_alerts = {}
    /\ cache = [k \in {} |-> 0]
    /\ now_cache = [k \in {} |-> 0]
    /\ query = QueryIdle
    /\ tick = TickIdle
    /\ digest = DigestIdle
    /\ sched = [tick |-> NoInstant, digest |-> 0, cleanup |-> 0]
    /\ h = HistOf({})
    /\ budget = [faults |-> 0, ops |-> 0, adv |-> 0]

\* The locals of the tick, in a step during which the store fails.
TickConfStoreDown ==
    [tick |-> tick, cache |-> cache, sent_alerts |-> sent_alerts, h |-> h,
     store_down |-> TRUE]

\* The fetch for today returns and the run goes on to its next await, its
\* INSERTs failing on the way.
TickFetchedTodayStoreDown(r) ==
    /\ tick.pc = "await_fetch_today"
    /\ TickResume(TickOnToday(TickConfStoreDown, r, now))
    /\ UNCHANGED <<live, now, source, bills, bill_alerts, digest, sched>>

\* The ticks of the scheduler, every fetch answered and every send
\* returning; the store fails at most once.
NextStore ==
    \/ TickStart /\ UNCHANGED budget
    \/ /\ tick.pc = "await_fetch_today"
       /\ TickFetchedToday(Answer(source, {}, TickSub(tick).bill_id, tick.j_today))
       /\ UNCHANGED budget
    \/ /\ TickFetchedTodayStoreDown(Answer(source, {}, TickSub(tick).bill_id, tick.j_today))
       /\ Fault
    \/ /\ tick.pc = "await_fetch_tom"
       /\ TickFetchedTom(Answer(source, {}, TickSub(tick).bill_id, tick.j_tomorrow))
       /\ UNCHANGED budget
    \/ TickSendDone(TRUE) /\ UNCHANGED budget
    \/ /\ tick.pc = "idle" /\ sched.tick = now
       /\ Advance(Minutes, LastDay) /\ UNCHANGED budget

SpecStore == InitStore /\ [][NextStore]_vars

\* C29 as stated: a call of mark_sent that returns False finds its row in
\* the ledger.
C29_FalseMeansPresent ==
    [][\A row \in DOMAIN h'.calls :
          /\ Count(h'.calls, row) > Count(h.calls, row)
          /\ Count(h'.firsts, row) = Count(h.firsts, row)
          => row \in sent_alerts]_vars

-----------------------------------------------------------------------------
(* The flags of a new subscription (C30) *)

\* One chat, no bill yet.
InitRegister ==
    /\ now = [jdn |-> Day0, min |-> 1]
    /\ source = Schedule0
    /\ bills = <<>>
    /\ bill_alerts = [k \in {} |-> NoAlerts]
    /\ sent_alerts = {}
    /\ cache = [k \in {} |-> 0]
    /\ now_cache = [k \in {} |-> 0]
    /\ query = QueryIdle
    /\ tick = TickIdle
    /\ digest = DigestIdle
    /\ sched = [tick |-> NoInstant, digest |-> 0, cleanup |-> 0]
    /\ h = HistOf({})
    /\ budget = [faults |-> 0, ops |-> 0, adv |-> 0]

\* The chat registers a subject under a new name or under a name it has,
\* toggles the alerts of a subject it holds, and deletes a subject it holds.
NextRegister ==
    \/ \E name \in {"home", "office"}, bill_id \in {"A", "B"} :
          Register(1, name, bill_id) /\ UNCHANGED budget
    \/ \E bill_id \in {"A", "B"}, key \in {"a1h", "a10m", "a1201"} :
          Owned(bills, 1, bill_id) /\ Toggle(1, bill_id, key) /\ UNCHANGED budget
    \/ \E bill_id \in {"A", "B"} :
          Owned(bills, 1, bill_id) /\ DeleteBill(1, bill_id) /\ UNCHANGED budget

SpecRegister == InitRegister /\ [][NextRegister]_vars

\* C30 as stated: when a step gives the chat a subject it did not hold, the
\* three alerts of that subscription are off after the step.
C30_NewSubscriptionAllOff ==
    [][\A bill_id \in {"A", "B"} :
          ~Owned(bills, 1, bill_id) /\ Owned(bills', 1, bill_id) =>
             GetAlerts(bill_alerts', 1, bill_id) = NoAlerts]_vars

-----------------------------------------------------------------------------
(* A subscription with the digest only (C31) *)

OnlyDigest == [a1h |-> 0, a10m |-> 0, a1201 |-> 1]

\* Subject A has the midnight digest only, subject B the ten-minute alert
\* only.
InitDigestOnly ==
    /\ now \in {[jdn |-> Day0, min |-> m] : m \in Starts}
    /\ source = Schedule0
    /\ bills = << [chat_id |-> 1, name |-> "home", bill_id |-> "A"],
                  [chat_id |-> 1, name |-> "office", bill_id |-> "B"] >>
    /\ bill_alerts = [k \in {<<1, "A">>, <<1, "B">>} |->
                         IF k[2] = "A" THEN OnlyDigest ELSE Only10m]
    /\ sent_alerts = {}
    /\ cache = [k \in {} |-> 0]
    /\ now_cache = [k \in {} |-> 0]
    /\ query = QueryIdle
    /\ tick = TickIdle
    /\ digest = DigestIdle
    /\ sched = [tick |-> NoInstant, digest |-> 0, cleanup |-> 0]
    /\ h = HistOf({})
    /\ budget = [faults |-> 0, ops |-> 0, adv |-> 0]

\* Both jobs, every fetch answered and every send returning, next to the
\* alert buttons of subject A; the clock moves on between the runs.
NextDigestOnly ==
    \/ TickStart /\ UNCHANGED budget
    \/ /\ tick.pc = "await_fetch_today"
       /\ TickFetchedToday(Answer(source, {}, TickSub(tick).bill_id, tick.j_today))
       /\ UNCHANGED budget
    \/ /\ tick.pc = "await_fetch_tom"
       /\ TickFetchedTom(Answer(source, {}, TickSub(tick).bill_id, tick.j_tomorrow))
       /\ UNCHANGED budget
    \/ TickSendDone(TRUE) /\ UNCHANGED budget
    \/ DigestStart /\ UNCHANGED budget
    \/ /\ digest.pc = "await_fetch"
       /\ DigestFetched(Answer(source, {}, DigestSub(digest).bill_id, digest.j_today))
       /\ UNCHANGED budget
    \/ DigestSendDone(TRUE) /\ UNCHANGED budget
    \/ \E key \in {"a1h", "a10m", "a1201"} : Toggle(1, "A", key) /\ UserOp
    \/ /\ tick.pc = "idle" /\ digest.pc = "idle" /\ sched.tick = now
       /\ Advance(Minutes, LastDay) /\ UNCHANGED budget

SpecDigestOnly == InitDigestOnly /\ [][NextDigestOnly]_vars

\* The subscriptions a run of alerts_tick has loaded with the digest as
\* their only kind, before or after a step of the run.
LoadedDigestOnly(t) ==
    {t.active[n] : n \in {m \in 1..Len(t.active) :
                             t.active[m].a1h = 0 /\ t.active[m].a10m = 0}}

\* C31: for a subscription that alerts_tick has loaded with the digest as
\* its only kind, no step of the run waits for a fetch or a send for it,
\* makes or replaces a cache entry of its subject, or enters a ledger row for
\* it (so none of its notifications is sent by alerts_tick).
C31_DigestOnlySkipped ==
    [][tick' # tick =>
          \A sub \in LoadedDigestOnly(tick) \cup LoadedDigestOnly(tick') :
             /\ tick'.pc # "idle" => TickSub(tick') # sub
             /\ \A key \in DOMAIN cache' :
                   key[1] = sub.bill_id => key \in DOMAIN cache /\ cache'[key] = cache[key]
             /\ \A row \in sent_alerts' \ sent_alerts :
                   ~(row[1] = sub.chat_id /\ row[2] = sub.bill_id)
             /\ \A row \in DOMAIN h'.sent :
                   row[1] = sub.chat_id /\ row[2] = sub.bill_id
                      => Count(h'.sent, row) = Count(h.sent, row)]_vars

\* The tick of 13:00 has run with subject A on the digest only: B's
\* ten-minute alert of its 13:10 outage is sent and B's schedule cached, A's
\* 14:00 outage has no alert and A's schedule was not fetched.
C31_Witness ==
    /\ now = [jdn |-> Day0, min |-> 780] /\ tick.pc = "idle" /\ sched.tick = now
    /\ budget.ops = 0 /\ bill_alerts[<<1, "A">>] = OnlyDigest
    /\ DOMAIN h.sent = {RowB10m} /\ sent_alerts = {RowB10m}
    /\ <<"B", Date0>> \in DOMAIN cache /\ <<"A", Date0>> \notin DOMAIN cache

====
